---- MODULE Spec2Model ----
(***************************************************************************)
(* Build and packaging pipeline of kapsul: project inspection, build       *)
(* command resolution, executeBuild (pre-build hooks, build subprocess,    *)
(* post-build hooks), the build / deploy entry points that drive it, the   *)
(* override configuration (validation, merge) and the archive strategies   *)
(* (zip, tar.gz, tar) with their include / exclude patterns.               *)
(*                                                                         *)
(* Text is a sequence of characters, a command line a sequence of words.   *)
(* The archive strategies walk the project as it was when they were        *)
(* called; the artifact they are writing is not part of the walk.          *)
(***************************************************************************)
EXTENDS Integers, Sequences, FiniteSets, TLC

VARIABLES
    files,          \* paths that exist under the project root
    manifest,       \* parsed package.json
    expressSrc,     \* server-entry files whose content references express
    globalBins,     \* binaries for which `<bin> --version` succeeds
    cfg,            \* parsed content of .kapsul.build.json
    entry,          \* operation invoked in this run
    useCustomConfig,\* options.useCustomConfig handed to executeBuild
    pc,             \* position of the entry point's continuation
    proc,           \* build subprocess: none / running / errored / closed
    stdoutPending,  \* chunks the subprocess has still to write on stdout
    stderrPending,  \* chunks the subprocess has still to write on stderr
    buildOutput,    \* executeBuild's buildOutput accumulator
    progress,       \* events handed to options.onProgress, in order
    buildCommand,   \* command line handed to spawn
    execLog,        \* execSync calls of the pre/post hooks, in order
    promise,        \* executeBuild's promise: none / pending / resolved / rejected
    result,         \* value the promise settled with
    console,        \* what the entry point reported, in order
    decision,       \* answer the caller gave to the last confirm prompt
    archive,        \* build.zip was created in this run
    uploaded,       \* the archive was posted to the deploy endpoint
    arcPc,          \* position of the archive strategy that is running
    arcArgs,        \* format, outputFile and patterns the strategy works with
    arcPending,     \* paths the archiver has still to append, in order
    entries,        \* paths written into the archive so far
    partial,        \* paths on disk whose content is incomplete
    processed,      \* bytes the strategy has processed so far
    arcPromise,     \* the strategy's promise: none / pending / resolved / rejected
    arcResult,      \* what the promise settled with: the artifact or the error
    validation,     \* what validateCustomBuildConfig returned
    merged,         \* what getMergedBuildConfig returned
    detectedType,   \* what detectProjectType returned to a direct call
    outputValidation, \* what validateBuildOutput returned
    typesSeen       \* project types that the uses of this run worked with

vars == <<files, manifest, expressSrc, globalBins, cfg, entry, useCustomConfig,
          pc, proc, stdoutPending, stderrPending, buildOutput, progress,
          buildCommand, execLog, promise, result, console, decision,
          archive, uploaded, arcPc, arcArgs, arcPending, entries, partial,
          processed, arcPromise, arcResult, validation, merged, detectedType,
          outputValidation, typesSeen>>

arcVars == <<arcPc, arcArgs, arcPending, entries, partial, processed, arcPromise,
             arcResult>>

callVars == <<validation, merged, detectedType, outputValidation>>

fnVars == <<callVars, typesSeen>>

envVars == <<manifest, expressSrc, globalBins, entry, useCustomConfig>>

(***************************************************************************)
(* Bounds                                                                  *)
(***************************************************************************)
MaxCmds == 2        \* hook commands (pre plus post) of an override, executeBuild runs
MaxChunks == 3      \* chunks (stdout plus stderr) of a subprocess, executeBuild runs
PipeCmds == 1       \* hook commands (pre plus post) of an override, build / deploy runs
PipeChunks == 2     \* chunks (stdout plus stderr) of a subprocess, build / deploy runs
MaxLines == 2       \* lines of a build output handed to validateBuildOutput
MaxListLen == 2     \* values in a list of an override, configuration calls

(***************************************************************************)
(* Sequences helpers                                                       *)
(***************************************************************************)
SeqsUpTo(S, n) == UNION { [1..k -> S] : k \in 0..n }

RECURSIVE Flatten(_)
Flatten(ss) == IF ss = <<>> THEN <<>> ELSE Head(ss) \o Flatten(Tail(ss))

Prefix(s, n) == [i \in 1..n |-> s[i]]

RECURSIVE IndexOf(_, _)
\* Array.prototype.indexOf: first position of v in s, 0 when absent
IndexOf(s, v) ==
    IF s = <<>> THEN 0
    ELSE IF Head(s) = v THEN 1
    ELSE LET r == IndexOf(Tail(s), v) IN IF r = 0 THEN 0 ELSE r + 1

(***************************************************************************)
(* project.js                                                              *)
(***************************************************************************)
hasFile(fs, f) == f \in fs
hasDirectory(fs, d) == d \in fs

Dependencies(m) == m.dependencies \cup m.devDependencies

isNextProject(fs, m) ==
    \/ "next" \in Dependencies(m)
    \/ hasFile(fs, "next.config.js")
    \/ hasDirectory(fs, "pages")
         /\ (hasFile(fs, "pages/_app.js") \/ hasFile(fs, "pages/_app.tsx"))
    \/ hasDirectory(fs, "app")
         /\ (hasFile(fs, "app/layout.js") \/ hasFile(fs, "app/layout.tsx"))
    \/ hasDirectory(fs, ".next")

ServerFiles == {"server.js", "app.js", "index.js",
                "src/server.js", "src/app.js", "src/index.js"}

isExpressProject(fs, m, refs) ==
    \/ "express" \in Dependencies(m)
    \/ \E f \in ServerFiles : hasFile(fs, f) /\ f \in refs
    \/ hasDirectory(fs, "routes") \/ hasDirectory(fs, "src/routes")
    \/ hasDirectory(fs, "middleware") \/ hasDirectory(fs, "src/middleware")

CommonEntryPoints == {"index.js", "main.js", "app.js", "server.js",
                      "src/index.js", "src/main.js", "src/app.js"}

isNodeProject(fs, m) ==
    IF ~hasFile(fs, "package.json") THEN FALSE
    ELSE IF m.main # "" THEN hasFile(fs, m.main)
    ELSE \/ \E e \in CommonEntryPoints : hasFile(fs, e)
         \/ "start" \in m.scripts
         \/ m.type \in {"module", "commonjs"}
         \/ m.enginesNode
         \/ m.dependencies # {}

detectProjectType(fs, m, refs) ==
    IF ~hasFile(fs, "package.json") THEN "unknown"
    ELSE IF isNextProject(fs, m) THEN "next"
    ELSE IF isExpressProject(fs, m, refs) THEN "express"
    ELSE IF isNodeProject(fs, m) THEN "node"
    ELSE "unknown"

TsPackages == {"ts-node", "ts-loader", "@types/node", "@types/react",
               "@typescript-eslint/parser", "@typescript-eslint/eslint-plugin"}

CommonTsFiles == {"index.ts", "src/index.ts", "app.ts", "src/app.ts",
                  "main.ts", "src/main.ts"}

\* a .ts/.tsx file directly inside one of the scanned source directories
TsInSrcDirs == {"util.ts", "src/util.ts", "app/page.tsx", "pages/index.tsx",
                "components/Button.tsx"}

TsDirOf(f) ==
    CASE f = "util.ts" -> "."
      [] f = "src/util.ts" -> "src"
      [] f = "app/page.tsx" -> "app"
      [] f = "pages/index.tsx" -> "pages"
      [] OTHER -> "components"

hasTypeScriptFiles(fs) ==
    \/ \E f \in CommonTsFiles : hasFile(fs, f)
    \/ \E f \in TsInSrcDirs :
          /\ f \in fs
          /\ (TsDirOf(f) = "." \/ hasDirectory(fs, TsDirOf(f)))

isTypeScriptProject(fs, m) ==
    \/ hasFile(fs, "tsconfig.json")
    \/ hasFile(fs, "package.json")
         /\ ("typescript" \in Dependencies(m) \/ Dependencies(m) \cap TsPackages # {})
    \/ hasTypeScriptFiles(fs)

(***************************************************************************)
(* packageManager.js                                                       *)
(***************************************************************************)
detectPackageManager(fs, m, bins) ==
    IF "pnpm-lock.yaml" \in fs THEN "pnpm"
    ELSE IF "yarn.lock" \in fs THEN "yarn"
    ELSE IF "bun.lockb" \in fs THEN "bun"
    ELSE IF "package-lock.json" \in fs THEN "npm"
    ELSE IF "package.json" \in fs /\ m.packageManager \in {"pnpm", "yarn", "bun", "npm"}
         THEN m.packageManager
    ELSE IF "pnpm" \in bins THEN "pnpm"
    ELSE IF "yarn" \in bins THEN "yarn"
    ELSE IF "bun" \in bins THEN "bun"
    ELSE "npm"

getRunCommand(pm, script) ==
    CASE pm = "pnpm" -> <<"pnpm", "run", script>>
      [] pm = "yarn" -> <<"yarn", script>>
      [] pm = "bun"  -> <<"bun", "run", script>>
      [] OTHER       -> <<"npm", "run", script>>

getBuildCommand(pm) == getRunCommand(pm, "build")

hasScript(fs, m, name) == "package.json" \in fs /\ name \in m.scripts

(***************************************************************************)
(* buildMapping.js                                                         *)
(***************************************************************************)
PROJECT_BUILD_CONFIGS(projectType) ==
    CASE projectType = "next" ->
           [outputDir |-> ".next",
            environmentVars |-> <<"NODE_ENV", "NEXT_PUBLIC_">>,
            successIndicators |-> <<".next/build-manifest.json">>]
      [] projectType = "express" ->
           [outputDir |-> "dist",
            environmentVars |-> <<"NODE_ENV", "PORT">>,
            successIndicators |-> <<"dist/index.js", "dist/server.js", "dist/app.js">>]
      [] projectType = "node" ->
           [outputDir |-> "dist",
            environmentVars |-> <<"NODE_ENV">>,
            successIndicators |-> <<"dist/index.js", "dist/main.js">>]
      [] OTHER ->
           [outputDir |-> "dist",
            environmentVars |-> <<"NODE_ENV">>,
            successIndicators |-> <<>>]

getBuildConfig(projectType) == PROJECT_BUILD_CONFIGS(projectType)

(***************************************************************************)
(* customBuild.js                                                          *)
(***************************************************************************)
CUSTOM_BUILD_CONFIG_FILE == ".kapsul.build.json"

DEFAULT_CUSTOM_CONFIG ==
    [buildCommand |-> <<>>,
     outputDir |-> "",
     environmentVars |-> <<>>,
     successIndicators |-> <<>>,
     preBuildCommands |-> <<>>,
     postBuildCommands |-> <<>>,
     exclude |-> <<"node_modules", ".git">>,
     include |-> <<>>,
     compressionFormat |-> ""]

hasCustomBuildConfig(fs) == CUSTOM_BUILD_CONFIG_FILE \in fs

\* exit status of a hook command: `false` exits 1, everything else exits 0
CmdExit(c) == IF c = "false" THEN 1 ELSE 0

\* directories a hook command leaves behind
CmdCreates(c) == IF c = "mkdir .next" THEN {".next"} ELSE {}

RECURSIVE RunCommands(_)
\* the execSync loop of the hooks: commands run in order, the first non-zero
\* exit throws out of the loop
RunCommands(cmds) ==
    IF cmds = <<>> THEN <<>>
    ELSE IF CmdExit(Head(cmds)) # 0 THEN <<Head(cmds)>>
    ELSE <<Head(cmds)>> \o RunCommands(Tail(cmds))

Tagged(phase, cmds) == [i \in 1..Len(cmds) |-> [phase |-> phase, cmd |-> cmds[i]]]

\* commands that runPreBuildCommands hands to execSync
runPreBuildCommands(fs, c) ==
    IF ~hasCustomBuildConfig(fs) THEN <<>>
    ELSE Tagged("pre-build", RunCommands(c.preBuildCommands))

\* commands that runPostBuildCommands hands to execSync
runPostBuildCommands(fs, c) ==
    IF ~hasCustomBuildConfig(fs) THEN <<>>
    ELSE Tagged("post-build", RunCommands(c.postBuildCommands))

\* the project after execSync has run the commands of `log`
hookFiles(fs, log) == fs \cup UNION { CmdCreates(log[i].cmd) : i \in DOMAIN log }

LegalFormats == {"zip", "tar.gz", "tar"}

validateCustomBuildConfig_noFormat(fs, c) ==
    IF ~hasCustomBuildConfig(fs)
    THEN [success |-> FALSE, messages |-> <<[kind |-> "no-config", arg |-> ""]>>]
    ELSE LET m1 == IF c.buildCommand = <<>>
                   THEN <<[kind |-> "no-build-command", arg |-> ""]>> ELSE <<>>
             m2 == IF c.outputDir # "" /\ c.outputDir \notin fs
                   THEN <<[kind |-> "output-dir-missing", arg |-> c.outputDir]>> ELSE <<>>
             messages == m1 \o m2
         IN [success |-> Len(messages) = 0, messages |-> messages]

validateCustomBuildConfig(fs, c) ==
    IF ~hasCustomBuildConfig(fs)
    THEN [success |-> FALSE, messages |-> <<[kind |-> "no-config", arg |-> ""]>>]
    ELSE LET m1 == IF c.buildCommand = <<>>
                   THEN <<[kind |-> "no-build-command", arg |-> ""]>> ELSE <<>>
             m2 == IF c.outputDir # "" /\ c.outputDir \notin fs
                   THEN <<[kind |-> "output-dir-missing", arg |-> c.outputDir]>> ELSE <<>>
             m3 == IF c.compressionFormat # "" /\ c.compressionFormat \notin LegalFormats
                   THEN <<[kind |-> "invalid-format", arg |-> c.compressionFormat]>> ELSE <<>>
             messages == m1 \o m2 \o m3
         IN [success |-> Len(messages) = 0, messages |-> messages]

\* Array.prototype.filter((value, index, self) => self.indexOf(value) === index)
RECURSIVE FilterFirstFrom(_, _)
FilterFirstFrom(self, index) ==
    IF index > Len(self) THEN <<>>
    ELSE (IF IndexOf(self, self[index]) = index THEN <<self[index]>> ELSE <<>>)
           \o FilterFirstFrom(self, index + 1)

MergeArrays_concat(defaults, custom) == defaults \o custom

\* [...defaults, ...custom].filter(first occurrence)
MergeArrays(defaults, custom) == FilterFirstFrom(defaults \o custom, 1)

getMergedBuildConfig(fs, c, projectType) ==
    LET defaultConfig == getBuildConfig(projectType) IN
    IF ~hasCustomBuildConfig(fs) THEN defaultConfig
    ELSE [c EXCEPT
            !.environmentVars =
                MergeArrays(defaultConfig.environmentVars, c.environmentVars),
            !.successIndicators =
                MergeArrays(defaultConfig.successIndicators, c.successIndicators)]

DefaultExclude(outputFile) ==
    <<"node_modules", ".git", ".github", "coverage", "tests", "test", "*.log",
      outputFile>>

getDeploymentPatterns(fs, c) ==
    IF ~hasCustomBuildConfig(fs)
    THEN [include |-> <<>>, exclude |-> DefaultExclude("build.zip")]
    ELSE [include |-> c.include, exclude |-> c.exclude]

\* nothing was validated or merged yet
NoValidation == [success |-> FALSE, messages |-> <<>>]
NoOutputValidation == [success |-> FALSE, messages |-> <<>>]
NoMerged == [environmentVars |-> <<>>, successIndicators |-> <<>>]

(***************************************************************************)
(* build.js: build command resolution                                      *)
(***************************************************************************)
getNextBuildCommand_npx(pm) == <<"npx", "next", "build">>

getNextBuildCommand(pm) ==
    CASE pm = "pnpm" -> <<"pnpm", "next", "build">>
      [] pm = "yarn" -> <<"yarn", "next", "build">>
      [] pm = "bun"  -> <<"bun", "next", "build">>
      [] OTHER       -> <<"npx", "next", "build">>

getNodeBuildCommand(fs, m, pm) ==
    IF isTypeScriptProject(fs, m)
    THEN IF hasScript(fs, m, "tsc") THEN getRunCommand(pm, "tsc")
         ELSE CASE pm = "pnpm" -> <<"pnpm", "tsc">>
                [] pm = "yarn" -> <<"yarn", "tsc">>
                [] pm = "bun"  -> <<"bun", "tsc">>
                [] OTHER       -> <<"npx", "tsc">>
    ELSE IF hasScript(fs, m, "build") THEN getRunCommand(pm, "build")
    ELSE IF hasScript(fs, m, "compile") THEN getRunCommand(pm, "compile")
    ELSE IF hasScript(fs, m, "bundle") THEN getRunCommand(pm, "bundle")
    ELSE getBuildCommand(pm)

getBuildCommandForProject(fs, m, projectType, pm) ==
    IF hasScript(fs, m, "build") THEN getBuildCommand(pm)
    ELSE CASE projectType = "next" -> getNextBuildCommand(pm)
           [] projectType \in {"express", "node"} -> getNodeBuildCommand(fs, m, pm)
           [] OTHER -> getBuildCommand(pm)

getCustomBuildCommand_defaultFirst(fs, m, c, projectType, pm) ==
    getBuildCommandForProject(fs, m, projectType, pm)

getCustomBuildCommand(fs, m, c, projectType, pm) ==
    IF hasCustomBuildConfig(fs) /\ c.buildCommand # <<>> THEN c.buildCommand
    ELSE getBuildCommandForProject(fs, m, projectType, pm)

detectBuildCommand(fs, m, refs, bins, c) ==
    IF hasCustomBuildConfig(fs)
    THEN getCustomBuildCommand(fs, m, c, detectProjectType(fs, m, refs),
                               detectPackageManager(fs, m, bins))
    ELSE getBuildCommandForProject(fs, m, detectProjectType(fs, m, refs),
                                   detectPackageManager(fs, m, bins))

hasGlobalNext(bins) == "next" \in bins
hasGlobalTypeScript(bins) == "tsc" \in bins

hasBuildCommand(fs, m, refs, bins) ==
    IF hasScript(fs, m, "build") THEN TRUE
    ELSE LET projectType == detectProjectType(fs, m, refs) IN
         CASE projectType = "next" ->
                "node_modules/.bin/next" \in fs \/ hasGlobalNext(bins)
           [] projectType \in {"express", "node"} ->
                IF isTypeScriptProject(fs, m)
                THEN "node_modules/.bin/tsc" \in fs \/ hasGlobalTypeScript(bins)
                ELSE \/ hasScript(fs, m, "build")
                     \/ hasScript(fs, m, "compile")
                     \/ hasScript(fs, m, "bundle")
           [] OTHER -> FALSE

(***************************************************************************)
(* build.js: executeBuild                                                  *)
(***************************************************************************)
Event(step, status, output) == [step |-> step, status |-> status, output |-> output]

NoResult == [success |-> FALSE, output |-> <<>>, command |-> <<>>,
             hasCode |-> FALSE, code |-> 0]

SpawnErrorMessage == <<"E", "N", "O", "E", "N", "T">>
SpawnErrorCode == -2

\* a handler that puts the new chunk in front of the accumulator
appendChunk_prepend(buf, chunk) == chunk \o buf

\* `buildOutput += output` of the two data handlers
appendChunk(buf, chunk) == buf \o chunk

\* options.useCustomConfig || customBuild.hasCustomBuildConfig()
hooksEnabled(ucc, fs) == ucc \/ hasCustomBuildConfig(fs)

\* `const success = code === 0 && (hasCustomBuildConfig() ? validate().success : true)`
buildSuccess(code, fs, c) ==
    code = 0 /\ (IF hasCustomBuildConfig(fs)
                 THEN validateCustomBuildConfig(fs, c).success
                 ELSE TRUE)

\* one use of the project type: which consumer worked with which value
Seen(use, projectType) == [use |-> use, type |-> projectType]

\* executeBuild from its call to the point where it returns the promise:
\* pre-build hooks, command resolution (which detects the project type of the
\* project as the hooks left it), spawn
ExecuteBuildStart(ucc, seen) ==
    LET pre == IF hooksEnabled(ucc, files)
               THEN runPreBuildCommands(files, cfg) ELSE <<>>
        fs == hookFiles(files, pre)
    IN /\ proc = "none"
       /\ execLog' = execLog \o pre
       /\ files' = fs
       /\ buildCommand' = detectBuildCommand(fs, manifest, expressSrc, globalBins, cfg)
       /\ typesSeen' = seen \cup
              {Seen("resolution", detectProjectType(fs, manifest, expressSrc))}
       /\ progress' = progress
            \o (IF hooksEnabled(ucc, files)
                THEN <<Event("pre-build", "running", <<>>),
                       Event("pre-build", "complete", <<>>)>>
                ELSE <<>>)
            \o <<Event("build", "running", <<>>)>>
       /\ proc' = "running"
       /\ promise' = "pending"
       /\ useCustomConfig' = ucc
       /\ UNCHANGED <<arcVars, callVars, manifest, expressSrc, globalBins, cfg, entry,
                      stdoutPending, stderrPending, buildOutput, result>>

\* buildProcess.stdout.on('data')
StdoutData ==
    /\ proc = "running"
    /\ stdoutPending # <<>>
    /\ buildOutput' = appendChunk(buildOutput, Head(stdoutPending))
    /\ progress' = Append(progress, Event("build", "running", Head(stdoutPending)))
    /\ stdoutPending' = Tail(stdoutPending)
    /\ UNCHANGED <<arcVars, fnVars, files, manifest, expressSrc, globalBins, cfg, entry, useCustomConfig,
                   pc, proc, stderrPending, buildCommand, execLog, promise, result,
                   console, decision, archive, uploaded>>

\* buildProcess.stderr.on('data')
StderrData ==
    /\ proc = "running"
    /\ stderrPending # <<>>
    /\ buildOutput' = appendChunk(buildOutput, Head(stderrPending))
    /\ progress' = Append(progress, Event("build", "error", Head(stderrPending)))
    /\ stderrPending' = Tail(stderrPending)
    /\ UNCHANGED <<arcVars, fnVars, files, manifest, expressSrc, globalBins, cfg, entry, useCustomConfig,
                   pc, proc, stdoutPending, buildCommand, execLog, promise, result,
                   console, decision, archive, uploaded>>

\* directories a build may leave behind
BuildProducts == {"dist", ".next"}

\* buildProcess.on('close'): all data of both streams has been delivered.
\* The subprocess has written `created` by the time it exits.
CloseHandler(code, created) ==
    LET built == files \cup created
        hooks == hooksEnabled(useCustomConfig, built)
        post == IF hooks THEN runPostBuildCommands(built, cfg) ELSE <<>>
        fs == hookFiles(built, post)
    IN /\ files' = fs
       /\ execLog' = execLog \o post
       /\ progress' = progress
            \o (IF hooks
                THEN <<Event("post-build", "running", <<>>),
                       Event("post-build", "complete", <<>>)>>
                ELSE <<>>)
       /\ IF promise = "pending"
          THEN /\ promise' = "resolved"
               /\ result' = [success |-> buildSuccess(code, fs, cfg),
                             output |-> buildOutput,
                             command |-> buildCommand,
                             hasCode |-> TRUE,
                             code |-> code]
          ELSE UNCHANGED <<promise, result>>
       /\ proc' = "closed"

ExitCodes == {0, 1}

Close ==
    /\ proc = "running"
    /\ stdoutPending = <<>>
    /\ stderrPending = <<>>
    /\ \E code \in ExitCodes, created \in SUBSET BuildProducts :
           CloseHandler(code, created)
    /\ UNCHANGED <<arcVars, fnVars, manifest, expressSrc, globalBins, cfg, entry, useCustomConfig, pc,
                   stdoutPending, stderrPending, buildOutput, buildCommand,
                   console, decision, archive, uploaded>>

\* buildProcess.on('error'): the command could not be spawned, nothing was written
SpawnError ==
    /\ proc = "running"
    /\ buildOutput = <<>>
    /\ promise = "pending"
    /\ promise' = "rejected"
    /\ result' = [success |-> FALSE, output |-> SpawnErrorMessage,
                  command |-> buildCommand, hasCode |-> FALSE, code |-> 0]
    /\ proc' = "errored"
    /\ stdoutPending' = <<>>
    /\ stderrPending' = <<>>
    /\ UNCHANGED <<arcVars, fnVars, files, manifest, expressSrc, globalBins, cfg, entry, useCustomConfig,
                   pc, buildOutput, progress, buildCommand, execLog,
                   console, decision, archive, uploaded>>

\* 'close' may still be emitted after 'error'; its handler runs, the promise is
\* already settled
CloseAfterError ==
    /\ proc = "errored"
    /\ CloseHandler(SpawnErrorCode, {})
    /\ UNCHANGED <<arcVars, fnVars, manifest, expressSrc, globalBins, cfg, entry, useCustomConfig, pc,
                   stdoutPending, stderrPending, buildOutput, buildCommand,
                   console, decision, archive, uploaded>>

\* a direct call executeBuild(options)
CallExecuteBuild ==
    /\ entry = "executeBuild"
    /\ pc = "idle"
    /\ \E ucc \in BOOLEAN : ExecuteBuildStart(ucc, typesSeen)
    /\ pc' = "awaitBuild"
    /\ UNCHANGED <<console, decision, archive, uploaded>>

\* the caller of a direct executeBuild receives the settled promise
ReceiveResult ==
    /\ entry = "executeBuild"
    /\ pc = "awaitBuild"
    /\ promise \in {"resolved", "rejected"}
    /\ pc' = IF promise = "resolved" THEN "returned" ELSE "thrown"
    /\ UNCHANGED <<arcVars, fnVars, files, manifest, expressSrc, globalBins, cfg, entry, useCustomConfig,
                   proc, stdoutPending, stderrPending, buildOutput, progress,
                   buildCommand, execLog, promise, result, console, decision,
                   archive, uploaded>>

(***************************************************************************)
(* customBuild.js / commands.js: build:init                                *)
(***************************************************************************)
Msg(tag, output, command) == [tag |-> tag, output |-> output, command |-> command]
Say(tag) == Msg(tag, <<>>, <<>>)

\* the override that createDefaultCustomBuildConfig(projectType) writes
createDefaultCustomBuildConfig(fs, m, refs, bins) ==
    LET projectType == detectProjectType(fs, m, refs)
        buildConfig == getBuildConfig(projectType)
        pm == detectPackageManager(fs, m, bins)
    IN [DEFAULT_CUSTOM_CONFIG EXCEPT
          !.buildCommand = getBuildCommandForProject(fs, m, projectType, pm),
          !.outputDir = buildConfig.outputDir,
          !.environmentVars = buildConfig.environmentVars,
          !.successIndicators = buildConfig.successIndicators,
          !.compressionFormat =
              IF projectType \in {"node", "express"} THEN "tar.gz"
              ELSE IF projectType = "next" THEN "zip"
              ELSE ""]

WriteDefaultConfig ==
    /\ cfg' = createDefaultCustomBuildConfig(files, manifest, expressSrc, globalBins)
    /\ files' = files \cup {CUSTOM_BUILD_CONFIG_FILE}

(***************************************************************************)
(* commands.js: build and deploy                                           *)
(***************************************************************************)
runVars == <<proc, stdoutPending, stderrPending, buildOutput, progress,
             buildCommand, execLog, promise, result>>

\* deploy (both variants) and build: no build command detected
NoBuildCommand ==
    /\ entry \in {"deployPrompt", "deployStrict", "build"}
    /\ pc = "idle"
    /\ ~hasBuildCommand(files, manifest, expressSrc, globalBins)
    /\ console' = Append(console, Say("no-build-command"))
    /\ pc' = IF entry = "deployPrompt" THEN "promptNoBuild" ELSE "promptInit"
    /\ UNCHANGED <<files, cfg, envVars, arcVars, fnVars, runVars, decision, archive, uploaded>>

\* a deploy that archives whatever the caller answers
noBuildNext_always(answer) == "archiving"

\* where deploy goes after 'continue with deployment without building?'
noBuildNext(answer) == IF answer THEN "archiving" ELSE "returned"

AnswerNoBuild ==
    /\ pc = "promptNoBuild"
    /\ \E answer \in BOOLEAN :
          /\ decision' = IF answer THEN "yes" ELSE "no"
          /\ pc' = noBuildNext(answer)
          /\ console' = IF answer THEN console
                        ELSE Append(console, Say("deployment-canceled"))
    /\ UNCHANGED <<files, cfg, envVars, arcVars, fnVars, runVars, archive, uploaded>>

\* 'would you like to create / update a custom build configuration?'
AnswerInit ==
    /\ pc = "promptInit"
    /\ \E answer \in BOOLEAN :
          /\ decision' = IF answer THEN "yes" ELSE "no"
          /\ IF answer
             THEN IF hasCustomBuildConfig(files)
                  THEN /\ pc' = "promptOverwrite"
                       /\ UNCHANGED <<files, cfg, console>>
                  ELSE /\ WriteDefaultConfig
                       /\ console' = Append(console, Say("config-created"))
                       /\ pc' = "returned"
             ELSE /\ console' = Append(console,
                          Say(IF entry = "build" THEN "suggestion"
                              ELSE "deployment-canceled"))
                  /\ pc' = "returned"
                  /\ UNCHANGED <<files, cfg>>
    /\ UNCHANGED <<envVars, arcVars, fnVars, runVars, archive, uploaded>>

\* initCustomBuild: 'a custom build configuration already exists. Overwrite it?'
AnswerOverwrite ==
    /\ pc = "promptOverwrite"
    /\ \E answer \in BOOLEAN :
          /\ decision' = IF answer THEN "yes" ELSE "no"
          /\ IF answer
             THEN /\ WriteDefaultConfig
                  /\ console' = Append(console, Say("config-created"))
             ELSE /\ console' = Append(console, Say("init-canceled"))
                  /\ UNCHANGED <<files, cfg>>
          /\ pc' = "returned"
    /\ UNCHANGED <<envVars, arcVars, fnVars, runVars, archive, uploaded>>

\* build: the override file exists and does not validate
BuildInvalidConfig ==
    /\ entry = "build"
    /\ pc = "idle"
    /\ hasBuildCommand(files, manifest, expressSrc, globalBins)
    /\ hasCustomBuildConfig(files)
    /\ ~validateCustomBuildConfig(files, cfg).success
    /\ console' = Append(console, Say("invalid-config"))
    /\ pc' = "returned"
    /\ UNCHANGED <<files, cfg, envVars, arcVars, fnVars, runVars, decision, archive, uploaded>>

\* build validates the override before it builds, deploy does not
validatesFirst(e) == e = "build"

\* build and deploy: call executeBuild
StartBuild ==
    /\ entry \in {"deployPrompt", "deployStrict", "build"}
    /\ pc = "idle"
    /\ hasBuildCommand(files, manifest, expressSrc, globalBins)
    /\ (validatesFirst(entry) /\ hasCustomBuildConfig(files))
          => validateCustomBuildConfig(files, cfg).success
    /\ ExecuteBuildStart(hasCustomBuildConfig(files),
           typesSeen \cup {Seen("command", detectProjectType(files, manifest, expressSrc))})
    /\ pc' = "awaitBuild"
    /\ UNCHANGED <<console, decision, archive, uploaded>>

\* `const projectType = projectUtils.detectProjectType()` at the head of the
\* command: the value the command keeps for its later uses
commandType == (CHOOSE p \in typesSeen : p.use = "command").type

\* a deploy that never takes the failure branch
buildFailed_never(r) == FALSE

\* `if (!buildResult.success)` of deploy
buildFailed(r) == ~r.success

\* deploy, compression.js variant: continuation after `await executeBuild`
DeployPromptAfterBuild ==
    /\ entry = "deployPrompt"
    /\ pc = "awaitBuild"
    /\ promise \in {"resolved", "rejected"}
    /\ IF promise = "rejected"
       THEN /\ console' = Append(console, Say("error-undefined"))
            /\ pc' = "thrown"
       ELSE IF buildFailed(result)
       THEN /\ console' = Append(console,
                             Msg("build-failed", result.output, result.command))
            /\ pc' = "promptBuildFailed"
       ELSE /\ console' = Append(console, Say("build-succeeded"))
            /\ pc' = "archiving"
    /\ UNCHANGED <<files, cfg, envVars, arcVars, fnVars, runVars, decision, archive, uploaded>>

\* 'Build failed. Do you want to continue with deployment anyway?'
AnswerBuildFailed ==
    /\ pc = "promptBuildFailed"
    /\ \E answer \in BOOLEAN :
          /\ decision' = IF answer THEN "yes" ELSE "no"
          /\ pc' = IF answer THEN "archiving" ELSE "thrown"
          /\ console' = IF answer THEN console
                        ELSE Append(console, Say("deployment-canceled"))
    /\ UNCHANGED <<files, cfg, envVars, arcVars, fnVars, runVars, archive, uploaded>>

\* deploy, hard-cancel variant: continuation after `await executeBuild`.
\* Without an override the lookup of the expected output directory goes
\* through buildMapping, which the commands module never imports.
DeployStrictAfterBuild ==
    /\ entry = "deployStrict"
    /\ pc = "awaitBuild"
    /\ promise \in {"resolved", "rejected"}
    /\ IF promise = "rejected"
       THEN /\ console' = Append(console, Say("error-undefined"))
            /\ pc' = "thrown"
       ELSE IF buildFailed(result)
       THEN /\ console' = console
                 \o <<Msg("build-failed", result.output, result.command),
                      Say("deployment-canceled")>>
            /\ pc' = "returned"
       ELSE IF ~hasCustomBuildConfig(files)
       THEN /\ console' = console
                 \o <<Say("build-succeeded"), Say("buildMapping-not-defined")>>
            /\ pc' = "thrown"
       ELSE IF cfg.outputDir # "" /\ cfg.outputDir \notin files
       THEN /\ console' = console
                 \o <<Say("build-succeeded"), Say("output-dir-missing")>>
            /\ pc' = "promptOutputDir"
       ELSE /\ console' = Append(console, Say("build-succeeded"))
            /\ pc' = "archiving"
    /\ typesSeen' = IF promise = "resolved" /\ buildFailed(result)
                    THEN typesSeen \cup {Seen("validation", commandType)}
                    ELSE typesSeen
    /\ UNCHANGED <<files, cfg, envVars, arcVars, callVars, runVars, decision, archive,
                   uploaded>>

\* 'Build output directory is missing. Continue with deployment anyway?'
AnswerOutputDir ==
    /\ pc = "promptOutputDir"
    /\ \E answer \in BOOLEAN :
          /\ decision' = IF answer THEN "yes" ELSE "no"
          /\ pc' = IF answer THEN "archiving" ELSE "returned"
          /\ console' = IF answer THEN console
                        ELSE Append(console, Say("deployment-canceled"))
    /\ UNCHANGED <<files, cfg, envVars, arcVars, fnVars, runVars, archive, uploaded>>

\* build: continuation after `await executeBuild`; every throw is caught
BuildAfterBuild ==
    /\ entry = "build"
    /\ pc = "awaitBuild"
    /\ promise \in {"resolved", "rejected"}
    /\ console' =
         IF promise = "rejected" THEN Append(console, Say("error-undefined"))
         ELSE IF ~result.success
         THEN Append(console, Msg("build-failed", result.output, result.command))
         ELSE IF ~useCustomConfig
         THEN console \o <<Msg("build-succeeded", <<>>, result.command),
                           Say("buildMapping-not-defined")>>
         ELSE IF cfg.outputDir # "" /\ cfg.outputDir \notin files
         THEN console \o <<Msg("build-succeeded", <<>>, result.command),
                           Say("output-dir-missing")>>
         ELSE Append(console, Msg("build-succeeded", <<>>, result.command))
    /\ pc' = "returned"
    /\ typesSeen' = IF promise = "resolved"
                    THEN typesSeen \cup {Seen("validation", commandType)}
                    ELSE typesSeen
    /\ UNCHANGED <<files, cfg, envVars, arcVars, callVars, runVars, decision, archive,
                   uploaded>>

\* createBuildArchive: build.zip is written, or archiver reports an error
CreateArchive ==
    /\ pc = "archiving"
    /\ arcArgs' = [format |-> "zip", outputFile |-> "build.zip",
                   exclude |-> getDeploymentPatterns(files, cfg).exclude,
                   include |-> getDeploymentPatterns(files, cfg).include]
    /\ \E ok \in BOOLEAN :
          IF ok
          THEN /\ archive' = TRUE
               /\ files' = files \cup {"build.zip"}
               /\ pc' = "uploading"
          ELSE /\ pc' = "thrown"
               /\ UNCHANGED <<archive, files>>
    /\ UNCHANGED <<cfg, envVars, runVars, console, decision, uploaded,
                   arcPc, arcPending, entries, partial, processed, arcPromise,
                   arcResult, fnVars>>

\* axios.post of the archive, then fs.unlinkSync(buildFile)
Upload ==
    /\ pc = "uploading"
    /\ \E ok \in BOOLEAN :
          IF ok
          THEN /\ uploaded' = TRUE
               /\ files' = files \ {"build.zip"}
               /\ pc' = "done"
          ELSE /\ pc' = "thrown"
               /\ UNCHANGED <<uploaded, files>>
    /\ UNCHANGED <<cfg, envVars, arcVars, fnVars, runVars, console, decision, archive>>

(***************************************************************************)
(* commands.js: build:init, and the build that follows it                  *)
(***************************************************************************)
\* initCustomBuild called as the build:init command
CallInitCustomBuild ==
    /\ entry = "build:init"
    /\ pc = "idle"
    /\ IF hasCustomBuildConfig(files)
       THEN /\ pc' = "promptOverwrite"
            /\ UNCHANGED <<files, cfg, console>>
       ELSE /\ WriteDefaultConfig
            /\ console' = Append(console, Say("config-created"))
            /\ pc' = "returned"
    /\ UNCHANGED <<envVars, arcVars, fnVars, runVars, decision, archive, uploaded>>

\* the caller runs the build command after build:init has written the file
BuildAfterInit ==
    /\ entry = "build:init"
    /\ pc = "returned"
    /\ console = <<Say("config-created")>>
    /\ entry' = "build"
    /\ pc' = "idle"
    /\ UNCHANGED <<files, cfg, manifest, expressSrc, globalBins, useCustomConfig,
                   arcVars, fnVars, runVars, console, decision, archive, uploaded>>

(***************************************************************************)
(* compression.js: formats, names and patterns                             *)
(***************************************************************************)
COMPRESSION_FORMATS == [ZIP |-> "zip", TAR_GZ |-> "tar.gz", TAR |-> "tar"]

getOptimalCompressionFormat(fs, c, projectType) ==
    IF hasCustomBuildConfig(fs) /\ c.compressionFormat # ""
    THEN c.compressionFormat
    ELSE IF projectType \in {"node", "express"} THEN COMPRESSION_FORMATS.TAR_GZ
    ELSE COMPRESSION_FORMATS.ZIP

\* the characters of every path, pattern and artifact name that occurs
Text ==
    "./" :> <<".", "/">> @@
    "package.json" :> <<"p", "a", "c", "k", "a", "g", "e", ".", "j", "s", "o", "n">> @@
    ".kapsul.build.json" :> <<".", "k", "a", "p", "s", "u", "l", ".", "b", "u", "i", "l", "d", ".", "j", "s", "o", "n">> @@
    "dist" :> <<"d", "i", "s", "t">> @@
    "dist/index.js" :> <<"d", "i", "s", "t", "/", "i", "n", "d", "e", "x", ".", "j", "s">> @@
    "dist/node_modules" :> <<"d", "i", "s", "t", "/", "n", "o", "d", "e", "_", "m", "o", "d", "u", "l", "e", "s">> @@
    "dist/node_modules/x.js" :> <<"d", "i", "s", "t", "/", "n", "o", "d", "e", "_", "m", "o", "d", "u", "l", "e", "s", "/", "x", ".", "j", "s">> @@
    "node_modules" :> <<"n", "o", "d", "e", "_", "m", "o", "d", "u", "l", "e", "s">> @@
    "node_modules/a.js" :> <<"n", "o", "d", "e", "_", "m", "o", "d", "u", "l", "e", "s", "/", "a", ".", "j", "s">> @@
    "src" :> <<"s", "r", "c">> @@
    "src/app.js" :> <<"s", "r", "c", "/", "a", "p", "p", ".", "j", "s">> @@
    ".git" :> <<".", "g", "i", "t">> @@
    ".github" :> <<".", "g", "i", "t", "h", "u", "b">> @@
    "coverage" :> <<"c", "o", "v", "e", "r", "a", "g", "e">> @@
    "tests" :> <<"t", "e", "s", "t", "s">> @@
    "test" :> <<"t", "e", "s", "t">> @@
    "*.log" :> <<"*", ".", "l", "o", "g">> @@
    "**/*" :> <<"*", "*", "/", "*">> @@
    "build.zip" :> <<"b", "u", "i", "l", "d", ".", "z", "i", "p">> @@
    "build.tar.gz" :> <<"b", "u", "i", "l", "d", ".", "t", "a", "r", ".", "g", "z">> @@
    "build.tar" :> <<"b", "u", "i", "l", "d", ".", "t", "a", "r">> @@
    "zip" :> <<"z", "i", "p">> @@
    "tar.gz" :> <<"t", "a", "r", ".", "g", "z">> @@
    "tar" :> <<"t", "a", "r">> @@
    "tarball" :> <<"t", "a", "r", "b", "a", "l", "l">> @@
    "build.tarball" :> <<"b", "u", "i", "l", "d", ".", "t", "a", "r", "b", "a", "l", "l">> @@
    "out.tgz" :> <<"o", "u", "t", ".", "t", "g", "z">>

NameOf(text) == CHOOSE n \in DOMAIN Text : Text[n] = text

Drop(text, n) == SubSeq(text, n + 1, Len(text))

\* String.prototype.includes
Includes(text, pattern) ==
    \E i \in 0..(Len(text) - Len(pattern)) :
        SubSeq(text, i + 1, i + Len(pattern)) = pattern

EndsWith(text, suffix) ==
    /\ Len(suffix) <= Len(text)
    /\ Drop(text, Len(text) - Len(suffix)) = suffix

RECURSIVE StarToDotStar(_)
\* pattern.replace(/\*/g, '.*')
StarToDotStar(pattern) ==
    IF pattern = <<>> THEN <<>>
    ELSE (IF Head(pattern) = "*" THEN <<".", "*">> ELSE <<Head(pattern)>>)
           \o StarToDotStar(Tail(pattern))

RECURSIVE RegExpMatchHere(_, _)
\* the regular expression matches a prefix of text; `.` is any character,
\* `.*` any run of characters, every other character of the patterns stands
\* for itself
RegExpMatchHere(re, text) ==
    IF re = <<>> THEN TRUE
    ELSE IF Len(re) >= 2 /\ re[1] = "." /\ re[2] = "*"
    THEN \E k \in 0..Len(text) : RegExpMatchHere(Drop(re, 2), Drop(text, k))
    ELSE /\ text # <<>>
         /\ re[1] = "." \/ re[1] = text[1]
         /\ RegExpMatchHere(Tail(re), Tail(text))

\* RegExp.prototype.test of an unanchored expression
RegExpTest(re, text) ==
    \E i \in 0..Len(text) : RegExpMatchHere(re, Drop(text, i))

\* the pattern test of the tar filters
PatternMatches(pattern, path) ==
    IF \E i \in DOMAIN pattern : pattern[i] = "*"
    THEN RegExpTest(StarToDotStar(pattern), path)
    ELSE Includes(path, pattern)

\* Array.prototype.some over a pattern list, with the test of the tar filters
SomeMatches(list, path) ==
    \E i \in DOMAIN list : PatternMatches(Text[list[i]], Text[path])

\* filter: (path, stat) => ... of tar.c in createTarGzArchive and createTarArchive
tarFilter(patterns, path) ==
    IF SomeMatches(patterns.exclude, path)
    THEN FALSE
    ELSE IF Len(patterns.include) > 0
    THEN SomeMatches(patterns.include, path)
    ELSE TRUE

\* the project root as tar.c(['./']) and the globs walk it, in readdir order
WalkOrder ==
    <<"./", ".kapsul.build.json", "dist", "dist/index.js", "dist/node_modules",
      "dist/node_modules/x.js", "node_modules", "node_modules/a.js",
      "package.json", "src", "src/app.js">>

ProjectDirs == {"./", "dist", "dist/node_modules", "node_modules", "src"}

LastSlash(text) ==
    IF \E i \in DOMAIN text : text[i] = "/"
    THEN CHOOSE i \in DOMAIN text :
            text[i] = "/" /\ \A j \in DOMAIN text : text[j] = "/" => j <= i
    ELSE 0

\* the directory a path of the project lies in
Parent(p) ==
    IF LastSlash(Text[p]) = 0 THEN "./"
    ELSE NameOf(Prefix(Text[p], LastSlash(Text[p]) - 1))

RECURSIVE tarReaches(_, _)
\* tar.c asks the filter for every path it comes to, the root included, and
\* neither writes nor enters a directory the filter turned down
tarReaches(patterns, p) ==
    /\ tarFilter(patterns, p)
    /\ p = "./" \/ tarReaches(patterns, Parent(p))

tarEntries(fs, patterns) ==
    SelectSeq(WalkOrder, LAMBDA p : (p = "./" \/ p \in fs) /\ tarReaches(patterns, p))

RECURSIVE GlobMatch(_, _)
\* a glob without globstar against a whole path: `*` is a run of characters
\* other than the separator
GlobMatch(pattern, path) ==
    IF pattern = <<>> THEN path = <<>>
    ELSE IF Head(pattern) = "*"
    THEN \E k \in 0..Len(path) :
            /\ \A i \in 1..k : path[i] # "/"
            /\ GlobMatch(Tail(pattern), Drop(path, k))
    ELSE /\ path # <<>>
         /\ Head(pattern) = Head(path)
         /\ GlobMatch(Tail(pattern), Tail(path))

\* the match archive.glob applies to patterns and to options.ignore, dot: true
Minimatch(pattern, path) ==
    IF pattern = Text["**/*"] THEN TRUE ELSE GlobMatch(pattern, path)

\* archive.glob(pattern, {ignore, dot: true}): every path below the root that
\* matches the pattern and no ignore pattern; an ignored directory is still
\* entered
globEntries(fs, pattern, ignore) ==
    SelectSeq(WalkOrder, LAMBDA p :
        /\ p # "./" /\ p \in fs
        /\ Minimatch(Text[pattern], Text[p])
        /\ ~\E i \in DOMAIN ignore : Minimatch(Text[ignore[i]], Text[p]))

RECURSIVE includeGlobs(_, _)
\* patterns.include.forEach(pattern => archive.glob(pattern, { dot: true }))
includeGlobs(fs, include) ==
    IF include = <<>> THEN <<>>
    ELSE globEntries(fs, Head(include), <<>>) \o includeGlobs(fs, Tail(include))

zipEntries(fs, patterns) ==
    globEntries(fs, "**/*", patterns.exclude) \o includeGlobs(fs, patterns.include)

\* outputFile.replace(/\.tar\.gz$/, '.tar')
tarFileOf(outputFile) ==
    IF EndsWith(Text[outputFile], <<".", "t", "a", "r", ".", "g", "z">>)
    THEN NameOf(Prefix(Text[outputFile], Len(Text[outputFile]) - 3))
    ELSE outputFile

LargeArchiveBytes == 50 * 1024 * 1024

\* size of a path of the project in bytes
FileSize(p) ==
    IF p \in ProjectDirs THEN 0
    ELSE IF p \in {"package.json", ".kapsul.build.json"} THEN 1024
    ELSE 30 * 1024 * 1024

(***************************************************************************)
(* compression.js: createCompressedArchive and its strategies;             *)
(* commands.js: createBuildArchive                                         *)
(***************************************************************************)
NoArgs == [format |-> "", outputFile |-> "", exclude |-> <<>>, include |-> <<>>]

\* an option that was left out, an option that was given
Absent == <<>>
Given(x) == <<x>>

restVars == <<manifest, expressSrc, globalBins, cfg, entry, useCustomConfig, pc,
              proc, stdoutPending, stderrPending, buildOutput, buildCommand,
              execLog, promise, result, decision, archive, uploaded, fnVars>>

\* format, outputFile and patterns createCompressedArchive(options) settles on
compressedArchiveArgs(fs, m, refs, c, options) ==
    LET projectType == detectProjectType(fs, m, refs)
        format == IF options.format # "" THEN options.format
                  ELSE getOptimalCompressionFormat(fs, c, projectType)
        outputFile == IF options.outputFile # "" THEN options.outputFile
                      ELSE NameOf(<<"b", "u", "i", "l", "d", ".">> \o Text[format])
        patterns == IF hasCustomBuildConfig(fs) THEN getDeploymentPatterns(fs, c)
                    ELSE [include |-> <<>>, exclude |-> DefaultExclude(outputFile)]
    IN [format |-> format,
        outputFile |-> outputFile,
        exclude |-> IF options.exclude # Absent THEN options.exclude[1]
                    ELSE patterns.exclude,
        include |-> IF options.include # Absent THEN options.include[1]
                    ELSE patterns.include]

\* what createBuildArchive works with: always a zip named build.zip
buildArchiveArgs(fs, c) ==
    LET patterns == getDeploymentPatterns(fs, c) IN
    [format |-> "zip", outputFile |-> "build.zip",
     exclude |-> patterns.exclude, include |-> patterns.include]

\* an event handed to options.onProgress; -1 stands for a field left out
ArchiveEvent(format, bytes, count, total) ==
    [format |-> format, processed |-> bytes, entries |-> count, total |-> total]

RECURSIVE TotalSize(_)
TotalSize(paths) ==
    IF paths = <<>> THEN 0 ELSE FileSize(Head(paths)) + TotalSize(Tail(paths))

\* resolve(value) or reject(err)
Settle(outcome, value) ==
    /\ arcPromise' = outcome
    /\ arcResult' = value
    /\ arcPc' = "settled"

\* the strategy opens its first file and collects what it is going to write
StartStrategy(args) ==
    /\ arcArgs' = args
    /\ entries' = {}
    /\ processed' = 0
    /\ CASE args.format = COMPRESSION_FORMATS.ZIP ->
              /\ files' = files \cup {args.outputFile}
              /\ partial' = partial \cup {args.outputFile}
              /\ arcPending' = zipEntries(files, args)
              /\ arcPc' = "zip"
              /\ arcPromise' = "pending"
              /\ UNCHANGED arcResult
         [] args.format = COMPRESSION_FORMATS.TAR_GZ ->
              /\ files' = files \cup {tarFileOf(args.outputFile)}
              /\ partial' = partial \cup {tarFileOf(args.outputFile)}
              /\ arcPending' = tarEntries(files, args)
              /\ arcPc' = "pack"
              /\ arcPromise' = "pending"
              /\ UNCHANGED arcResult
         [] args.format = COMPRESSION_FORMATS.TAR ->
              /\ files' = files \cup {args.outputFile}
              /\ partial' = partial \cup {args.outputFile}
              /\ arcPending' = tarEntries(files, args)
              /\ arcPc' = "pack"
              /\ arcPromise' = "pending"
              /\ UNCHANGED arcResult
         [] OTHER ->
              /\ Settle("rejected", "unsupported-format")
              /\ arcPending' = <<>>
              /\ UNCHANGED <<files, partial>>

ArchiveFormatOptions == {"", "zip", "tar.gz", "tar"}
OutputFileOptions == {"", "out.tgz"}
PatternOptions == {Absent, Given(<<>>), Given(<<"node_modules">>), Given(<<"dist">>)}

CallCreateCompressedArchive ==
    /\ entry = "createCompressedArchive"
    /\ arcPc = "idle"
    /\ \E format \in ArchiveFormatOptions, outputFile \in OutputFileOptions,
          exclude \in PatternOptions, include \in PatternOptions :
          StartStrategy(compressedArchiveArgs(files, manifest, expressSrc, cfg,
              [format |-> format, outputFile |-> outputFile,
               exclude |-> exclude, include |-> include]))
    /\ UNCHANGED <<restVars, progress, console>>

CallCreateBuildArchive ==
    /\ entry = "createBuildArchive"
    /\ arcPc = "idle"
    /\ StartStrategy(buildArchiveArgs(files, cfg))
    /\ UNCHANGED <<restVars, progress, console>>

\* whether the caller handed an onProgress callback to the strategy
hasOnProgress == entry = "createCompressedArchive"

\* archive.on('progress'): an entry went into the zip
ZipProgress ==
    /\ arcPc = "zip"
    /\ arcPending # <<>>
    /\ LET p == Head(arcPending)
           bytes == processed + FileSize(p) IN
         /\ entries' = entries \cup {p}
         /\ processed' = bytes
         /\ progress' = IF hasOnProgress
                        THEN Append(progress,
                               ArchiveEvent(COMPRESSION_FORMATS.ZIP, bytes,
                                   Cardinality(entries \cup {p}),
                                   TotalSize(zipEntries(files, arcArgs))))
                        ELSE progress
         /\ console' = IF bytes > LargeArchiveBytes
                       THEN Append(console, Say("large-archive-warning"))
                       ELSE console
    /\ arcPending' = Tail(arcPending)
    /\ UNCHANGED <<restVars, files, partial, arcArgs, arcPc, arcPromise, arcResult>>

\* archive.on('error', reject): reading or compressing an entry failed
ZipArchiveError ==
    /\ arcPc = "zip"
    /\ Settle("rejected", "archiver-error")
    /\ UNCHANGED <<restVars, files, partial, arcArgs, arcPending, entries,
                   processed, progress, console>>

\* the write stream reports an error: nothing listens for it on output, the
\* process ends with the promise still pending
ZipOutputError ==
    /\ arcPc = "zip"
    /\ arcPc' = "crashed"
    /\ UNCHANGED <<restVars, files, partial, arcArgs, arcPending, entries,
                   processed, progress, console, arcPromise, arcResult>>

\* archive.finalize() has written everything: output.on('close')
ZipClose ==
    /\ arcPc = "zip"
    /\ arcPending = <<>>
    /\ partial' = partial \ {arcArgs.outputFile}
    /\ Settle("resolved", arcArgs.outputFile)
    /\ UNCHANGED <<restVars, files, arcArgs, arcPending, entries, processed,
                   progress, console>>

\* onentry of tar.c: currentSize is never advanced in createTarGzArchive and
\* createTarArchive reports no size
TarEntry ==
    /\ arcPc = "pack"
    /\ arcPending # <<>>
    /\ entries' = entries \cup {Head(arcPending)}
    /\ arcPending' = Tail(arcPending)
    /\ progress' = Append(progress,
                      ArchiveEvent(COMPRESSION_FORMATS.TAR,
                          IF arcArgs.format = COMPRESSION_FORMATS.TAR_GZ THEN 0 ELSE -1,
                          Cardinality(entries \cup {Head(arcPending)}), -1))
    /\ UNCHANGED <<restVars, files, partial, arcArgs, arcPc, processed,
                   arcPromise, arcResult, console>>

\* tar.c rejects: .catch(err => reject(err))
TarPackError ==
    /\ arcPc = "pack"
    /\ Settle("rejected", "tar-error")
    /\ UNCHANGED <<restVars, files, partial, arcArgs, arcPending, entries,
                   processed, progress, console>>

\* tar.c resolves.  createTarArchive resolves; createTarGzArchive opens the
\* read stream and the write stream and asks for the size of the tar file,
\* and a throwing statSync lands in the .catch
TarPackDone ==
    /\ arcPc = "pack"
    /\ arcPending = <<>>
    /\ IF arcArgs.format = COMPRESSION_FORMATS.TAR
       THEN /\ partial' = partial \ {arcArgs.outputFile}
            /\ Settle("resolved", arcArgs.outputFile)
            /\ UNCHANGED <<files, arcPending>>
       ELSE /\ files' = files \cup {arcArgs.outputFile}
            /\ partial' = (partial \ {tarFileOf(arcArgs.outputFile)})
                             \cup {arcArgs.outputFile}
            /\ \E statOk \in BOOLEAN :
                  IF statOk
                  THEN /\ arcPc' = "gzip"
                       /\ arcPending' = tarEntries(files, arcArgs)
                       /\ UNCHANGED <<arcPromise, arcResult>>
                  ELSE /\ Settle("rejected", "stat-error")
                       /\ UNCHANGED arcPending
    /\ UNCHANGED <<restVars, arcArgs, entries, processed, progress, console>>

\* source.on('data'): the tar file is read back, one chunk for each entry
GzipData ==
    /\ arcPc = "gzip"
    /\ arcPending # <<>>
    /\ processed' = processed + FileSize(Head(arcPending))
    /\ arcPending' = Tail(arcPending)
    /\ progress' = Append(progress,
                      ArchiveEvent(COMPRESSION_FORMATS.TAR_GZ,
                          processed + FileSize(Head(arcPending)), -1,
                          TotalSize(tarEntries(files, arcArgs))))
    /\ UNCHANGED <<restVars, files, partial, arcArgs, arcPc, entries,
                   arcPromise, arcResult, console>>

\* destination.on('finish'): unlink the tar file, resolve
GzipFinish ==
    /\ arcPc = "gzip"
    /\ arcPending = <<>>
    /\ files' = files \ {tarFileOf(arcArgs.outputFile)}
    /\ partial' = partial \ {arcArgs.outputFile}
    /\ Settle("resolved", arcArgs.outputFile)
    /\ UNCHANGED <<restVars, arcArgs, arcPending, entries, processed,
                   progress, console>>

\* the bodies of the two error handlers: unlink the tar file if it is there,
\* reject with the error
unlinkTarAndReject(err) ==
    /\ files' = files \ {tarFileOf(arcArgs.outputFile)}
    /\ Settle("rejected", err)
    /\ UNCHANGED <<restVars, partial, arcArgs, arcPending, entries, processed,
                   progress, console>>

\* source.on('error'): reading the tar file failed
SourceError ==
    /\ arcPc = "gzip"
    /\ unlinkTarAndReject("read-error")

\* destination.on('error'): writing the artifact failed
DestinationError ==
    /\ arcPc = "gzip"
    /\ unlinkTarAndReject("write-error")

\* the gzip stream reports an error: nothing listens for it, the process ends
\* with the promise still pending
GzipError ==
    /\ arcPc = "gzip"
    /\ arcPc' = "crashed"
    /\ UNCHANGED <<restVars, files, partial, arcArgs, arcPending, entries,
                   processed, progress, console, arcPromise, arcResult>>

(***************************************************************************)
(* customBuild.js: validateCustomBuildConfig and getMergedBuildConfig      *)
(* called on their own                                                     *)
(***************************************************************************)
CallValidateCustomBuildConfig ==
    /\ entry = "validateCustomBuildConfig"
    /\ pc = "idle"
    /\ validation' = validateCustomBuildConfig(files, cfg)
    /\ pc' = "returned"
    /\ UNCHANGED <<files, cfg, envVars, arcVars, runVars, console, decision,
                   archive, uploaded, merged, detectedType, outputValidation,
                   typesSeen>>

CallGetMergedBuildConfig ==
    /\ entry = "getMergedBuildConfig"
    /\ pc = "idle"
    /\ merged' = getMergedBuildConfig(files, cfg,
                     detectProjectType(files, manifest, expressSrc))
    /\ pc' = "returned"
    /\ UNCHANGED <<files, cfg, envVars, arcVars, runVars, console, decision,
                   archive, uploaded, validation, detectedType, outputValidation,
                   typesSeen>>

(***************************************************************************)
(* project.js / build.js: detectProjectType and detectBuildCommand called  *)
(* on their own                                                            *)
(***************************************************************************)
CallDetectProjectType ==
    /\ entry = "detectProjectType"
    /\ pc = "idle"
    /\ detectedType' = detectProjectType(files, manifest, expressSrc)
    /\ pc' = "returned"
    /\ UNCHANGED <<files, cfg, envVars, arcVars, runVars, console, decision,
                   archive, uploaded, validation, merged, outputValidation,
                   typesSeen>>

CallDetectBuildCommand ==
    /\ entry = "detectBuildCommand"
    /\ pc = "idle"
    /\ buildCommand' = detectBuildCommand(files, manifest, expressSrc, globalBins, cfg)
    /\ pc' = "returned"
    /\ UNCHANGED <<files, cfg, envVars, arcVars, fnVars, proc, stdoutPending,
                   stderrPending, buildOutput, progress, execLog, promise, result,
                   console, decision, archive, uploaded>>

(***************************************************************************)
(* build.js: validateBuildOutput                                           *)
(***************************************************************************)
UpperCase == <<"A", "B", "C", "D", "E", "F", "G", "H", "I", "J", "K", "L", "M",
               "N", "O", "P", "Q", "R", "S", "T", "U", "V", "W", "X", "Y", "Z">>
LowerCase == <<"a", "b", "c", "d", "e", "f", "g", "h", "i", "j", "k", "l", "m",
               "n", "o", "p", "q", "r", "s", "t", "u", "v", "w", "x", "y", "z">>

ToLowerCase(text) ==
    [i \in DOMAIN text |->
        IF \E k \in DOMAIN UpperCase : UpperCase[k] = text[i]
        THEN LowerCase[CHOOSE k \in DOMAIN UpperCase : UpperCase[k] = text[i]]
        ELSE text[i]]

\* /literal/i.test(text)
PatternTest(pattern, text) == Includes(ToLowerCase(text), pattern)

\* the common patterns, in the order of the array
errorPatterns ==
    <<<<"e", "r", "r", "o", "r">>,
      <<"f", "a", "i", "l", "e", "d">>,
      <<"e", "x", "c", "e", "p", "t", "i", "o", "n">>,
      <<"c", "a", "n", "n", "o", "t", " ", "f", "i", "n", "d", " ", "m", "o", "d", "u", "l", "e">>,
      <<"n", "o", "t", " ", "f", "o", "u", "n", "d">>>>

projectErrorPatterns(projectType) ==
    CASE projectType = "next" ->
           <<<<"e", "r", "r", "o", "r", " ", "b", "u", "i", "l", "d", "i", "n", "g">>,
             <<"f", "a", "i", "l", "e", "d", " ", "t", "o", " ", "c", "o", "m", "p", "i", "l", "e">>>>
      [] OTHER -> <<>>

RECURSIVE SplitLines(_, _)
\* text.split('\n'); `line` is the line collected so far
SplitLines(text, line) ==
    IF text = <<>> THEN <<line>>
    ELSE IF Head(text) = "\n" THEN <<line>> \o SplitLines(Tail(text), <<>>)
    ELSE SplitLines(Tail(text), Append(line, Head(text)))

RECURSIVE TrimStart(_)
TrimStart(text) ==
    IF text # <<>> /\ Head(text) \in {" ", "\t", "\n"} THEN TrimStart(Tail(text)) ELSE text

RECURSIVE TrimEnd(_)
TrimEnd(text) ==
    IF text # <<>> /\ text[Len(text)] \in {" ", "\t", "\n"}
    THEN TrimEnd(SubSeq(text, 1, Len(text) - 1)) ELSE text

\* String.prototype.trim
Trim(text) == TrimEnd(TrimStart(text))

RECURSIVE matchingLines_all(_, _)
RECURSIVE matchingLines(_, _)
\* a loop without the break: every matching line is pushed
matchingLines_all(pattern, lines) ==
    IF lines = <<>> THEN <<>>
    ELSE (IF PatternTest(pattern, Head(lines)) THEN <<Trim(Head(lines))>> ELSE <<>>)
            \o matchingLines_all(pattern, Tail(lines))

\* `for (const line of lines) if (pattern.test(line)) { errors.push(line.trim()); break }`
matchingLines(pattern, lines) ==
    IF lines = <<>> THEN <<>>
    ELSE IF PatternTest(pattern, Head(lines)) THEN <<Trim(Head(lines))>>
    ELSE matchingLines(pattern, Tail(lines))

\* what one forEach over `patterns` pushes onto errors
patternErrors(patterns, output) ==
    Flatten([i \in DOMAIN patterns |->
                IF PatternTest(patterns[i], output)
                THEN matchingLines(patterns[i], SplitLines(output, <<>>))
                ELSE <<>>])

validateBuildOutput(projectType, output) ==
    LET errors == patternErrors(errorPatterns, output)
                    \o patternErrors(projectErrorPatterns(projectType), output)
    IN [success |-> Len(errors) = 0, messages |-> errors]

CallValidateBuildOutput ==
    /\ entry = "validateBuildOutput"
    /\ pc = "idle"
    /\ \E projectType \in {"next", "express", "node", "unknown"} :
          /\ outputValidation' = validateBuildOutput(projectType, buildOutput)
          /\ typesSeen' = {Seen("validation", projectType)}
    /\ pc' = "returned"
    /\ UNCHANGED <<files, cfg, envVars, arcVars, runVars, console, decision,
                   archive, uploaded, validation, merged, detectedType>>

(***************************************************************************)
(* Inputs                                                                  *)
(***************************************************************************)
HookCommands == {"true", "false"}

\* what the subprocess writes: the n-th chunk of each stream
Digits == <<"1", "2", "3", "4", "5", "6", "7", "8", "9">>
Letters == <<"a", "b", "c", "d", "f", "g", "h", "i", "j">>
StdoutChunk(n) == IF n % 2 = 1 THEN <<"o", Digits[n]>> ELSE <<Digits[n]>>
StderrChunk(n) == IF n % 2 = 1 THEN <<Letters[n]>> ELSE <<"e", Letters[n]>>
StdoutStream(n) == [i \in 1..n |-> StdoutChunk(i)]
StderrStream(n) == [i \in 1..n |-> StderrChunk(i)]
IsStdoutChar(ch) == ch = "o" \/ \E i \in DOMAIN Digits : Digits[i] = ch
IsStderrChar(ch) == ch = "e" \/ \E i \in DOMAIN Letters : Letters[i] = ch

\* pre / post hook lists with at most n commands together
HookLists(n) ==
    { h \in SeqsUpTo(HookCommands, n) \X SeqsUpTo(HookCommands, n) :
        Len(h[1]) + Len(h[2]) <= n }

\* hook commands of a pipeline run: some write into the project
PipeHookCommands == HookCommands \cup {"mkdir .next"}

PipeHookLists(n) ==
    { h \in SeqsUpTo(PipeHookCommands, n) \X SeqsUpTo(PipeHookCommands, n) :
        Len(h[1]) + Len(h[2]) <= n }

\* chunk counts <<stdout, stderr>> with at most n chunks together
ChunkPlans(n) == { c \in (0..n) \X (0..n) : c[1] + c[2] <= n }


Manifest(deps, scripts) ==
    [dependencies |-> deps, devDependencies |-> {}, scripts |-> scripts,
     main |-> "", type |-> "", enginesNode |-> FALSE, packageManager |-> ""]

Config(bc, od, fmt, pre, post) ==
    [DEFAULT_CUSTOM_CONFIG EXCEPT !.buildCommand = bc, !.outputDir = od,
                                  !.compressionFormat = fmt,
                                  !.preBuildCommands = pre,
                                  !.postBuildCommands = post]

RunInit ==
    /\ pc = "idle"
    /\ proc = "none"
    /\ buildOutput = <<>>
    /\ progress = <<>>
    /\ buildCommand = <<>>
    /\ execLog = <<>>
    /\ promise = "none"
    /\ result = NoResult
    /\ console = <<>>
    /\ decision = "none"
    /\ archive = FALSE
    /\ uploaded = FALSE
    /\ useCustomConfig = FALSE
    /\ arcPc = "idle"
    /\ arcArgs = NoArgs
    /\ arcPending = <<>>
    /\ entries = {}
    /\ partial = {}
    /\ processed = 0
    /\ arcPromise = "none"
    /\ arcResult = ""
    /\ validation = NoValidation
    /\ merged = NoMerged
    /\ detectedType = ""
    /\ outputValidation = NoOutputValidation
    /\ typesSeen = {}

\* executeBuild called directly on a project with a build script
InitExec ==
    /\ RunInit
    /\ entry = "executeBuild"
    /\ manifest = Manifest({}, {"build"})
    /\ expressSrc = {}
    /\ globalBins = {}
    /\ \E hasCfg \in BOOLEAN, dist \in BOOLEAN :
          files = {"package.json"}
                    \cup (IF hasCfg THEN {CUSTOM_BUILD_CONFIG_FILE} ELSE {})
                    \cup (IF dist THEN {"dist"} ELSE {})
    /\ IF hasCustomBuildConfig(files)
       THEN \E bc \in {<<>>, <<"make">>}, od \in {"", "dist"},
               fmt \in {"", "tarball"}, h \in HookLists(MaxCmds) :
                 cfg = Config(bc, od, fmt, h[1], h[2])
       ELSE cfg = DEFAULT_CUSTOM_CONFIG
    /\ \E c \in ChunkPlans(MaxChunks) :
          /\ stdoutPending = StdoutStream(c[1])
          /\ stderrPending = StderrStream(c[2])

NextExec ==
    \/ CallExecuteBuild
    \/ StdoutData
    \/ StderrData
    \/ Close
    \/ SpawnError
    \/ CloseAfterError
    \/ ReceiveResult

SpecExec == InitExec /\ [][NextExec]_vars

\* build or deploy run on a project, with or without an override file
Init ==
    /\ RunInit
    /\ entry \in {"build", "deployPrompt", "deployStrict"}
    /\ \E deps \in {{}, {"next"}, {"lodash"}}, scripts \in {{}, {"build"}} :
          manifest = Manifest(deps, scripts)
    /\ expressSrc = {}
    /\ globalBins = {}
    /\ \E hasCfg \in BOOLEAN, dist \in BOOLEAN, nextBin \in BOOLEAN :
          files = {"package.json"}
                    \cup (IF hasCfg THEN {CUSTOM_BUILD_CONFIG_FILE} ELSE {})
                    \cup (IF dist THEN {"dist"} ELSE {})
                    \cup (IF nextBin THEN {"node_modules/.bin/next"} ELSE {})
    /\ IF hasCustomBuildConfig(files)
       THEN \E bc \in {<<>>, <<"make">>}, od \in {"", "dist"},
               fmt \in {"", "tarball"}, h \in PipeHookLists(PipeCmds) :
                 cfg = Config(bc, od, fmt, h[1], h[2])
       ELSE cfg = DEFAULT_CUSTOM_CONFIG
    /\ \E c \in ChunkPlans(PipeChunks) :
          /\ stdoutPending = StdoutStream(c[1])
          /\ stderrPending = StderrStream(c[2])

Next ==
    \/ NoBuildCommand
    \/ AnswerNoBuild
    \/ AnswerInit
    \/ AnswerOverwrite
    \/ BuildInvalidConfig
    \/ StartBuild
    \/ StdoutData
    \/ StderrData
    \/ Close
    \/ SpawnError
    \/ CloseAfterError
    \/ DeployPromptAfterBuild
    \/ AnswerBuildFailed
    \/ DeployStrictAfterBuild
    \/ BuildAfterBuild
    \/ CreateArchive
    \/ Upload

Spec == Init /\ [][Next]_vars

\* an archive is made of a project: createCompressedArchive(options) with any
\* options, or createBuildArchive()
InitArchive ==
    /\ RunInit
    /\ entry \in {"createCompressedArchive", "createBuildArchive"}
    /\ manifest = Manifest({}, {})
    /\ expressSrc = {}
    /\ globalBins = {}
    /\ stdoutPending = <<>>
    /\ stderrPending = <<>>
    /\ \E hasCfg \in BOOLEAN, dist \in BOOLEAN, distModules \in BOOLEAN,
          modules \in BOOLEAN, src \in BOOLEAN :
          files = {"package.json"}
                    \cup (IF hasCfg THEN {CUSTOM_BUILD_CONFIG_FILE} ELSE {})
                    \cup (IF dist THEN {"dist", "dist/index.js"} ELSE {})
                    \cup (IF dist /\ distModules
                          THEN {"dist/node_modules", "dist/node_modules/x.js"}
                          ELSE {})
                    \cup (IF modules THEN {"node_modules", "node_modules/a.js"}
                          ELSE {})
                    \cup (IF src THEN {"src", "src/app.js"} ELSE {})
    /\ IF hasCustomBuildConfig(files)
       THEN \E include \in {<<>>, <<"dist">>}, fmt \in {"", "tarball"} :
               cfg = [DEFAULT_CUSTOM_CONFIG EXCEPT !.include = include,
                                                  !.compressionFormat = fmt]
       ELSE cfg = DEFAULT_CUSTOM_CONFIG

NextArchive ==
    \/ CallCreateCompressedArchive
    \/ CallCreateBuildArchive
    \/ ZipProgress
    \/ ZipArchiveError
    \/ ZipOutputError
    \/ ZipClose
    \/ TarEntry
    \/ TarPackError
    \/ TarPackDone
    \/ GzipData
    \/ GzipFinish
    \/ SourceError
    \/ DestinationError
    \/ GzipError

SpecArchive == InitArchive /\ [][NextArchive]_vars

LockFiles == {"package-lock.json", "pnpm-lock.yaml", "yarn.lock", "bun.lockb"}

\* the configuration is validated, merged or resolved to a build command for
\* a project of any type and package manager, with or without an override
InitResolve ==
    /\ RunInit
    /\ entry \in {"validateCustomBuildConfig", "getMergedBuildConfig", "executeBuild"}
    /\ \E deps \in {{}, {"next"}, {"express"}}, scripts \in {{}, {"build"}} :
          manifest = Manifest(deps, scripts)
    /\ expressSrc = {}
    /\ globalBins = {}
    /\ stdoutPending = <<>>
    /\ stderrPending = <<>>
    /\ \E hasCfg \in BOOLEAN, dist \in BOOLEAN, lock \in LockFiles :
          files = {"package.json", lock}
                    \cup (IF hasCfg THEN {CUSTOM_BUILD_CONFIG_FILE} ELSE {})
                    \cup (IF dist THEN {"dist"} ELSE {})
    /\ IF hasCustomBuildConfig(files)
       THEN \E bc \in {<<>>, <<"make">>}, od \in {"", "dist"},
               fmt \in {"", "tar.gz", "tarball"},
               ev \in SeqsUpTo({"NODE_ENV", "API_KEY"}, MaxListLen),
               si \in SeqsUpTo({"dist/index.js", "done.txt"}, MaxListLen) :
                 cfg = [Config(bc, od, fmt, <<>>, <<>>) EXCEPT
                          !.environmentVars = ev, !.successIndicators = si]
       ELSE cfg = DEFAULT_CUSTOM_CONFIG

NextResolve ==
    \/ CallValidateCustomBuildConfig
    \/ CallGetMergedBuildConfig
    \/ CallExecuteBuild

SpecResolve == InitResolve /\ [][NextResolve]_vars

\* entry files a manifest's `main` may name
MainFiles == {"lib/main.js"}

\* project inspection on its own, and build:init followed by build: any manifest (framework or other
\* dependencies, typescript tooling, scripts, declared main), any of the
\* conventional files, any package manager, with or without an override
InitDetect ==
    /\ RunInit
    /\ entry \in {"detectProjectType", "detectBuildCommand", "build:init"}
    /\ \E deps \in {{}, {"lodash"}, {"express"}, {"next"}},
          dev \in {{}, {"typescript"}},
          scripts \in SUBSET {"build", "tsc", "start"},
          main \in {""} \cup MainFiles :
          manifest = [Manifest(deps, scripts) EXCEPT !.devDependencies = dev,
                                                     !.main = main]
    /\ expressSrc = {}
    /\ globalBins = {}
    /\ stdoutPending = <<>>
    /\ stderrPending = <<>>
    /\ \E hasCfg \in BOOLEAN, tsconfig \in BOOLEAN, index \in BOOLEAN,
          mainFile \in BOOLEAN, dist \in BOOLEAN, lock \in LockFiles :
          files = {"package.json", lock}
                    \cup (IF dist THEN {"dist"} ELSE {})
                    \cup (IF hasCfg THEN {CUSTOM_BUILD_CONFIG_FILE} ELSE {})
                    \cup (IF tsconfig THEN {"tsconfig.json"} ELSE {})
                    \cup (IF index THEN {"index.js"} ELSE {})
                    \cup (IF mainFile THEN MainFiles ELSE {})
    /\ IF hasCustomBuildConfig(files)
       THEN \E bc \in {<<>>, <<"make">>} : cfg = Config(bc, "", "", <<>>, <<>>)
       ELSE cfg = DEFAULT_CUSTOM_CONFIG

NextDetect ==
    \/ CallDetectProjectType
    \/ CallDetectBuildCommand
    \/ CallInitCustomBuild
    \/ AnswerOverwrite
    \/ BuildAfterInit
    \/ NoBuildCommand
    \/ BuildInvalidConfig
    \/ StartBuild

SpecDetect == InitDetect /\ [][NextDetect]_vars

\* lines a build may print
OutputLines ==
    {<<"o", "k">>,
     <<" ", " ", "E", "r", "r", "o", "r", ":", " ", "x", " ">>,
     <<"b", "u", "i", "l", "d", " ", "f", "a", "i", "l", "e", "d">>,
     <<"F", "a", "i", "l", "e", "d", " ", "t", "o", " ", "c", "o", "m", "p", "i", "l", "e">>,
     <<"e", "r", "r", "o", "r", " ", "b", "u", "i", "l", "d", "i", "n", "g", " ", "f", "a", "i", "l", "e", "d">>}

RECURSIVE JoinLines(_)
JoinLines(lines) ==
    IF lines = <<>> THEN <<>>
    ELSE IF Len(lines) = 1 THEN Head(lines)
    ELSE Head(lines) \o <<"\n">> \o JoinLines(Tail(lines))

\* validateBuildOutput on its own: any project type, any output of up to
\* MaxLines lines
InitOutput ==
    /\ pc = "idle"
    /\ entry = "validateBuildOutput"
    /\ manifest = Manifest({}, {})
    /\ expressSrc = {}
    /\ globalBins = {}
    /\ files = {"package.json"}
    /\ cfg = DEFAULT_CUSTOM_CONFIG
    /\ stdoutPending = <<>>
    /\ stderrPending = <<>>
    /\ \E lines \in SeqsUpTo(OutputLines, MaxLines) : buildOutput = JoinLines(lines)
    /\ proc = "none" /\ progress = <<>> /\ buildCommand = <<>> /\ execLog = <<>>
    /\ promise = "none" /\ result = NoResult /\ console = <<>>
    /\ decision = "none" /\ archive = FALSE /\ uploaded = FALSE
    /\ useCustomConfig = FALSE
    /\ arcPc = "idle" /\ arcArgs = NoArgs /\ arcPending = <<>> /\ entries = {}
    /\ partial = {} /\ processed = 0 /\ arcPromise = "none" /\ arcResult = ""
    /\ validation = NoValidation /\ merged = NoMerged /\ detectedType = ""
    /\ outputValidation = NoOutputValidation /\ typesSeen = {}

NextOutput == \/ CallValidateBuildOutput

SpecOutput == InitOutput /\ [][NextOutput]_vars

(***************************************************************************)
(* Properties of executeBuild (SpecExec)                                   *)
(***************************************************************************)
Settled == promise \in {"resolved", "rejected"}

HookFailed(phase) ==
    \E i \in DOMAIN execLog :
        execLog[i].phase = phase /\ CmdExit(execLog[i].cmd) # 0

HookRan(phase) == \E i \in DOMAIN execLog : execLog[i].phase = phase

\* C1: when a pre-build command exits non-zero the execution is aborted: the
\* build command is never spawned and the result has success = false.
C1_PreBuildFailureAborts ==
    HookFailed("pre-build") =>
        /\ proc = "none"
        /\ buildCommand = <<>>
        /\ (Settled => ~result.success)

\* C2: the result returned after the subprocess exits has success = true
\* exactly when the exit code is 0, with or without an override file.
C2_SuccessIffExitZero ==
    promise = "resolved" => (result.success <=> result.code = 0)

\* C3: when the build subprocess exits non-zero no post-build command is run.
C3_PostBuildOnlyAfterSuccess ==
    (promise = "resolved" /\ result.code # 0) => ~HookRan("post-build")

\* C4: build exit 0 followed by a failing post-build command gives
\* success = false, with the captured build output kept.
C4_PostBuildFailureDegrades ==
    (promise = "resolved" /\ result.code = 0 /\ HookFailed("post-build")) =>
        /\ ~result.success
        /\ result.output = buildOutput

\* C5: a spawn error is returned as a failed result (success = false, output =
\* the spawn error message, no exit code); executeBuild does not reject.
C5_SpawnErrorIsReturned ==
    /\ promise # "rejected"
    /\ pc # "thrown"
    /\ (result.output = SpawnErrorMessage) =>
          (promise = "resolved" /\ ~result.success /\ ~result.hasCode)

DataEvents == SelectSeq(progress, LAMBDA e : e.step = "build" /\ e.output # <<>>)
StdoutEvents == SelectSeq(DataEvents, LAMBDA e : e.status = "running")
StderrEvents == SelectSeq(DataEvents, LAMBDA e : e.status = "error")
Outputs(evs) == [i \in DOMAIN evs |-> evs[i].output]

\* C6: for every interleaving of stdout and stderr data events the result's
\* output is the concatenation of all chunks in arrival order, each stream's
\* chunks reach onProgress in that stream's order, and no chunk is lost or
\* duplicated before the result is returned.
C6_OutputInArrivalOrder ==
    /\ proc = "running" =>
          /\ Outputs(StdoutEvents) \o stdoutPending
                = StdoutStream(Len(StdoutEvents) + Len(stdoutPending))
          /\ Outputs(StderrEvents) \o stderrPending
                = StderrStream(Len(StderrEvents) + Len(stderrPending))
    /\ promise = "resolved" =>
          /\ stdoutPending = <<>> /\ stderrPending = <<>>
          /\ result.output = Flatten(Outputs(DataEvents))
          /\ SelectSeq(result.output, IsStdoutChar)
                = Flatten(StdoutStream(Len(StdoutEvents)))
          /\ SelectSeq(result.output, IsStderrChar)
                = Flatten(StderrStream(Len(StderrEvents)))

\* a result returned after stderr data arrived between two stdout chunks
C6_Witness ==
    /\ promise = "resolved"
    /\ Len(DataEvents) = 3
    /\ DataEvents[1].status = "running"
    /\ DataEvents[2].status = "error"
    /\ DataEvents[3].status = "running"

(***************************************************************************)
(* Properties of build and deploy (Spec)                                   *)
(***************************************************************************)
IsDeploy == entry \in {"deployPrompt", "deployStrict"}

Reported(m) == \E i \in DOMAIN console : console[i] = m

PastBuild == pc \notin {"idle", "awaitBuild"}

Archiving == archive \/ uploaded \/ pc \in {"archiving", "uploading", "done"}

\* C7: after executeBuild returned success = false deploy creates or uploads
\* the archive only if the caller chose to continue, and the failed result
\* (output and command) has been reported to the caller before that.
C7_FailedBuildNeverSilentlyDeployed ==
    (IsDeploy /\ promise = "resolved" /\ ~result.success /\ PastBuild) =>
        /\ Reported(Msg("build-failed", result.output, result.command))
        /\ Archiving => decision = "yes"

\* a failed build that the caller chose to deploy anyway
C7_Witness ==
    /\ IsDeploy /\ promise = "resolved" /\ ~result.success
    /\ archive /\ decision = "yes"

\* the override, leaving the output directory aside, validates
OtherwiseValid ==
    hasCustomBuildConfig(files) =>
        /\ cfg.buildCommand # <<>>
        /\ cfg.compressionFormat \in LegalFormats \cup {""}

\* the output directory the pipeline expects after a build
ExpectedOutputDir ==
    IF hasCustomBuildConfig(files) THEN cfg.outputDir
    ELSE getBuildConfig(detectProjectType(files, manifest, expressSrc)).outputDir

\* C8: build exit 0 with the declared outputDir missing afterwards is a
\* warning: the result stays successful and deploy hands the caller a
\* continue / abort decision, for an override's outputDir and a default one.
C8_MissingOutputDirIsWarning ==
    (/\ entry = "deployStrict"
     /\ promise = "resolved" /\ result.code = 0
     /\ OtherwiseValid
     /\ ExpectedOutputDir # "" /\ ExpectedOutputDir \notin files) =>
        /\ result.success
        /\ PastBuild => \/ pc = "promptOutputDir"
                        \/ decision \in {"yes", "no"}

\* C9: an override file whose validation yields a message halts the pipeline
\* before Building: neither build nor deploy runs pre-build commands or
\* spawns the build subprocess.
C9_InvalidOverrideHaltsBeforeBuild ==
    (/\ entry \in {"build", "deployPrompt", "deployStrict"}
     /\ hasCustomBuildConfig(files)
     /\ ~validateCustomBuildConfig(files, cfg).success) =>
        /\ proc = "none"
        /\ execLog = <<>>

\* the run started without an override file
NoOverrideAtStart ==
    ~hasCustomBuildConfig(files) \/ Reported(Say("config-created"))

\* C10: with no build command resolvable and no override, the pipeline stops
\* at the 'no build step' condition: executeBuild is never called and the
\* archive is created only after the caller decided to continue.
C10_NoBuildStepIsCallerDecision ==
    (/\ entry \in {"build", "deployPrompt", "deployStrict"}
     /\ NoOverrideAtStart
     /\ ~hasBuildCommand(files, manifest, expressSrc, globalBins)) =>
        /\ promise = "none" /\ proc = "none" /\ progress = <<>>
        /\ pc # "idle" => console[1] = Say("no-build-command")
        /\ Archiving => decision = "yes"

\* a project without build command whose archive was created on request
C10_Witness ==
    /\ NoOverrideAtStart
    /\ ~hasBuildCommand(files, manifest, expressSrc, globalBins)
    /\ promise = "none"
    /\ archive /\ decision = "yes"

(***************************************************************************)
(* Properties of the archive strategies (SpecArchive)                      *)
(***************************************************************************)
ArchiveSettled == arcPromise \in {"resolved", "rejected"}

IOErrors == {"archiver-error", "tar-error", "stat-error", "read-error", "write-error"}

\* the paths of the project, as they were when the strategy was called
ProjectPaths == { p \in files : \E i \in DOMAIN WalkOrder : WalkOrder[i] = p }

ContainsModules(p) == Includes(Text[p], Text["node_modules"])
ContainsDist(p) == Includes(Text[p], Text["dist"])

\* C11: once the promise of createTarGzArchive has settled, resolved or
\* rejected, the intermediate tar file is not on disk.
C11_TarFileGoneOnceSettled ==
    (arcArgs.format = "tar.gz" /\ ArchiveSettled)
        => tarFileOf(arcArgs.outputFile) \notin files

\* C12: once a strategy has rejected with an I/O error, there is no file at
\* the path of the final artifact.
C12_NoArtifactAfterIOError ==
    (arcPromise = "rejected" /\ arcResult \in IOErrors)
        => arcArgs.outputFile \notin files

\* C13: an archive made with exclude = ["node_modules"] and no include holds
\* exactly the paths of the project that do not contain node_modules.
C13_ExcludeOmitsModulesOnly ==
    (/\ arcPromise = "resolved"
     /\ arcArgs.exclude = <<"node_modules">>
     /\ arcArgs.include = <<>>)
        => entries \ {"./"} = { p \in ProjectPaths : ~ContainsModules(p) }

\* C14: an archive made with exclude = ["node_modules"] and include = ["dist"]
\* holds exactly the paths that match dist and do not contain node_modules.
C14_IncludeNarrowsToDist ==
    (/\ arcPromise = "resolved"
     /\ arcArgs.exclude = <<"node_modules">>
     /\ arcArgs.include = <<"dist">>)
        => entries \ {"./"} =
              { p \in ProjectPaths : ContainsDist(p) /\ ~ContainsModules(p) }

LargeArchiveWarnings ==
    Cardinality({ i \in DOMAIN console : console[i] = Say("large-archive-warning") })

\* C16: while one archive is made, the large-archive warning is printed at
\* most once.
C16_LargeArchiveWarnedOnce == LargeArchiveWarnings <= 1

(***************************************************************************)
(* Properties of build and deploy (Spec), continued                        *)
(***************************************************************************)
\* C15: the archive deploy has made has the format of the archive plan: the
\* override's compressionFormat if it names one, else tar.gz for node and
\* express projects, else zip.
C15_ArchiveFollowsPlan ==
    (IsDeploy /\ archive)
        => arcArgs.format =
             getOptimalCompressionFormat(files, cfg,
                 detectProjectType(files, manifest, expressSrc))

(***************************************************************************)
(* Properties of the configuration calls (SpecResolve)                     *)
(***************************************************************************)
Validated == entry = "validateCustomBuildConfig" /\ pc = "returned"
Merged == entry = "getMergedBuildConfig" /\ pc = "returned"
Spawned == entry = "executeBuild" /\ pc = "awaitBuild"

OverrideCommand == hasCustomBuildConfig(files) /\ cfg.buildCommand # <<>>
NoBuildCommandGiven == ~OverrideCommand
FormatIllegal ==
    /\ hasCustomBuildConfig(files)
    /\ cfg.compressionFormat \notin {"", "zip", "tar.gz", "tar"}
OutputDirMissing ==
    /\ hasCustomBuildConfig(files)
    /\ cfg.outputDir # ""
    /\ cfg.outputDir \notin files

\* C17: validation returns messages (success = false) exactly when there is
\* no build command, or the compression format is none of zip, tar.gz and
\* tar, or the declared output directory does not exist; the message about
\* the format names the format.
C17_ValidationFailsIffInvalid ==
    Validated =>
        /\ validation.success = (validation.messages = <<>>)
        /\ (validation.messages # <<>>)
              <=> (NoBuildCommandGiven \/ FormatIllegal \/ OutputDirMissing)
        /\ FormatIllegal =>
              \E i \in DOMAIN validation.messages :
                  /\ validation.messages[i].kind = "invalid-format"
                  /\ validation.messages[i].arg = cfg.compressionFormat

C17_Witness ==
    /\ Validated
    /\ OverrideCommand
    /\ ~OutputDirMissing
    /\ cfg.compressionFormat = "tarball"
    /\ ~validation.success
    /\ validation.messages = <<[kind |-> "invalid-format", arg |-> "tarball"]>>

Values(list) == { list[i] : i \in DOMAIN list }
Occurrences(list, v) == Cardinality({ i \in DOMAIN list : list[i] = v })

IsDedupedUnion(list, a, b) ==
    /\ Values(list) = Values(a) \cup Values(b)
    /\ \A v \in Values(list) : Occurrences(list, v) = 1

TypeDefault == getBuildConfig(detectProjectType(files, manifest, expressSrc))

\* C18: the merged successIndicators and environmentVars hold every value of
\* the type default and of the override, each exactly once.
C18_MergedListsAreDedupedUnion ==
    (Merged /\ hasCustomBuildConfig(files)) =>
        /\ IsDedupedUnion(merged.environmentVars,
                          TypeDefault.environmentVars, cfg.environmentVars)
        /\ IsDedupedUnion(merged.successIndicators,
                          TypeDefault.successIndicators, cfg.successIndicators)

C18_Witness ==
    /\ Merged
    /\ hasCustomBuildConfig(files)
    /\ cfg.environmentVars = <<"API_KEY", "API_KEY">>
    /\ cfg.successIndicators = <<"done.txt", "dist/index.js">>
    /\ merged.environmentVars = <<"NODE_ENV", "PORT", "API_KEY">>
    /\ Occurrences(merged.successIndicators, "dist/index.js") = 1

PackageManager == detectPackageManager(files, manifest, globalBins)

BuildScriptInvocation(pm) ==
    CASE pm = "npm"  -> <<"npm", "run", "build">>
      [] pm = "pnpm" -> <<"pnpm", "run", "build">>
      [] pm = "yarn" -> <<"yarn", "build">>
      [] pm = "bun"  -> <<"bun", "run", "build">>

NextInvocation(pm) ==
    CASE pm = "npm"  -> <<"npx", "next", "build">>
      [] pm = "pnpm" -> <<"pnpm", "next", "build">>
      [] pm = "yarn" -> <<"yarn", "next", "build">>
      [] pm = "bun"  -> <<"bun", "next", "build">>

\* C19: the command executeBuild spawns is the override's buildCommand if the
\* override gives one; else the package manager's invocation of the build
\* script if the manifest declares one; else the fallback of the project
\* type (the Next.js build for next; the generic build invocation for the
\* other types when the project has neither TypeScript nor a compile or
\* bundle script).
C19_BuildCommandPrecedence ==
    Spawned =>
        buildCommand =
            IF OverrideCommand THEN cfg.buildCommand
            ELSE IF "build" \in manifest.scripts
            THEN BuildScriptInvocation(PackageManager)
            ELSE IF detectProjectType(files, manifest, expressSrc) = "next"
            THEN NextInvocation(PackageManager)
            ELSE BuildScriptInvocation(PackageManager)

C19_Witness ==
    /\ Spawned
    /\ OverrideCommand
    /\ "build" \in manifest.scripts
    /\ buildCommand = <<"make">>

\* C20: with a Next.js dependency, no build script and no build command in
\* an override, the command is the Next.js build of the package manager:
\* npx next build, pnpm next build, yarn next build, bun next build.
C20_NextBuildPerPackageManager ==
    (/\ Spawned
     /\ "next" \in Dependencies(manifest)
     /\ "build" \notin manifest.scripts
     /\ NoBuildCommandGiven) =>
        /\ "package-lock.json" \in files => buildCommand = <<"npx", "next", "build">>
        /\ "pnpm-lock.yaml" \in files => buildCommand = <<"pnpm", "next", "build">>
        /\ "yarn.lock" \in files => buildCommand = <<"yarn", "next", "build">>
        /\ "bun.lockb" \in files => buildCommand = <<"bun", "next", "build">>

C20_Witness ==
    /\ Spawned
    /\ "next" \in Dependencies(manifest)
    /\ "build" \notin manifest.scripts
    /\ hasCustomBuildConfig(files)
    /\ cfg.buildCommand = <<>>
    /\ "bun.lockb" \in files
    /\ buildCommand = <<"bun", "next", "build">>

(***************************************************************************)
(* Properties of project inspection (SpecDetect)                           *)
(***************************************************************************)
Resolved == entry = "detectBuildCommand" /\ pc = "returned"
Detected == entry = "detectProjectType" /\ pc = "returned"

\* `<pm> run tsc` when the manifest declares a tsc script, else the compiler
\* invoked directly through the package manager
TscInvocation(pm) ==
    IF "tsc" \in manifest.scripts
    THEN CASE pm = "pnpm" -> <<"pnpm", "run", "tsc">>
           [] pm = "yarn" -> <<"yarn", "tsc">>
           [] pm = "bun"  -> <<"bun", "run", "tsc">>
           [] OTHER       -> <<"npm", "run", "tsc">>
    ELSE CASE pm = "pnpm" -> <<"pnpm", "tsc">>
           [] pm = "yarn" -> <<"yarn", "tsc">>
           [] pm = "bun"  -> <<"bun", "tsc">>
           [] OTHER       -> <<"npx", "tsc">>

\* C21: for a TypeScript project of any type other than next (express, node,
\* unknown) whose manifest has no build script and whose override supplies no
\* buildCommand, the resolved command is the tsc invocation: the package
\* manager's run of the tsc script when the manifest declares one, else the
\* direct compiler invocation.
C21_TypeScriptResolvesToTsc ==
    (/\ Resolved
     /\ isTypeScriptProject(files, manifest)
     /\ detectProjectType(files, manifest, expressSrc) # "next"
     /\ "build" \notin manifest.scripts
     /\ NoBuildCommandGiven)
        => buildCommand = TscInvocation(PackageManager)

FrameworkDependencies == {"next", "express"}

\* C22: every manifest that has no recognizable framework dependency and has
\* a start script is detected as node, whatever its other fields (a declared
\* main included) and whichever conventional files exist.
C22_StartScriptMeansNode ==
    (/\ Detected
     /\ Dependencies(manifest) \cap FrameworkDependencies = {}
     /\ "start" \in manifest.scripts)
        => detectedType = "node"

(***************************************************************************)
(* Properties of build and deploy (Spec): the project type                 *)
(***************************************************************************)
\* consumers of the project type in one run of build or deploy
TypeUses == {"resolution", "validation"}

\* C23: the project type is fixed for one pipeline run: every use of it
\* (build-command resolution and the command it returns, output validation)
\* works with the same value, also when a pre-build command or the build
\* subprocess has changed the project, for example by creating .next.
C23_ProjectTypeFixedPerRun ==
    \A a \in typesSeen, b \in typesSeen :
        (a.use \in TypeUses /\ b.use \in TypeUses) => a.type = b.type

\* C24: a deploy whose build succeeded and whose expected output directory
\* exists goes on from the build to the archive and the upload without asking
\* the caller for a decision, with and without an override file; past the
\* build it stops only where creating or uploading the archive failed.
C24_SuccessfulBuildDeploysUnasked ==
    (/\ IsDeploy /\ PastBuild
     /\ promise = "resolved" /\ result.success
     /\ ExpectedOutputDir # "" /\ ExpectedOutputDir \in files) =>
        /\ decision = "none"
        /\ \/ pc \in {"archiving", "uploading", "done"}
           \/ pc = "thrown" /\ arcArgs # NoArgs

(***************************************************************************)
(* Properties of executeBuild (SpecExec): order of the progress events     *)
(***************************************************************************)
PhaseRank(step) ==
    CASE step = "pre-build" -> 1
      [] step = "build" -> 2
      [] step = "post-build" -> 3

\* C25: the progress events of one executeBuild are ordered by phase: every
\* pre-build event precedes every build event, every build event (running,
\* output and error chunks) precedes every post-build event, and the last
\* event delivered before the result is returned is a complete event, with
\* and without an override file.
C25_ProgressOrderedByPhase ==
    /\ \A i \in DOMAIN progress, j \in DOMAIN progress :
          i < j => PhaseRank(progress[i].step) <= PhaseRank(progress[j].step)
    /\ promise = "resolved" =>
          /\ progress # <<>>
          /\ progress[Len(progress)].status = "complete"

(***************************************************************************)
(* Properties of validateBuildOutput (SpecOutput)                          *)
(***************************************************************************)
OutputValidated == entry = "validateBuildOutput" /\ pc = "returned"

\* the project type the call was made with
ValidatedType == (CHOOSE p \in typesSeen : p.use = "validation").type

\* the ordered pattern set of a project type
PatternsOf(projectType) == errorPatterns \o projectErrorPatterns(projectType)

\* positions of the patterns that match the output
MatchingPatterns(patterns) ==
    { i \in DOMAIN patterns : PatternTest(patterns[i], buildOutput) }

\* positions of the output's lines that match a pattern
LinesMatching(pattern) ==
    LET lines == SplitLines(buildOutput, <<>>)
    IN { j \in DOMAIN lines : PatternTest(pattern, lines[j]) }

Least(S) == CHOOSE n \in S : \A k \in S : n <= k

\* C26: validateBuildOutput records, for each pattern of its fixed ordered
\* pattern set that matches the output, exactly one message, the first line
\* that matches it (trimmed), in the order of the patterns; success holds
\* exactly when no message was recorded, and there are never more messages
\* than patterns.
C26_OneMessagePerMatchingPattern ==
    OutputValidated =>
        LET patterns == PatternsOf(ValidatedType)
            matching == MatchingPatterns(patterns)
            lines == SplitLines(buildOutput, <<>>)
            messages == outputValidation.messages
        IN /\ Len(messages) = Cardinality(matching)
           /\ \A i \in matching :
                 /\ LinesMatching(patterns[i]) # {}
                 /\ messages[Cardinality({ k \in matching : k <= i })]
                      = Trim(lines[Least(LinesMatching(patterns[i]))])
           /\ outputValidation.success <=> messages = <<>>
           /\ Len(messages) <= Len(patterns)

\* a next build whose output has two lines that match the first pattern, one
\* of which also matches a next pattern and needs trimming
C26_Witness ==
    /\ OutputValidated
    /\ ValidatedType = "next"
    /\ Cardinality(LinesMatching(errorPatterns[1])) = 2
    /\ MatchingPatterns(projectErrorPatterns("next")) # {}
    /\ Len(outputValidation.messages) >= 3
    /\ \E j \in LinesMatching(errorPatterns[1]) :
          Trim(SplitLines(buildOutput, <<>>)[j]) # SplitLines(buildOutput, <<>>)[j]

(***************************************************************************)
(* Properties of build and deploy (Spec): the override's build command     *)
(***************************************************************************)
\* the run started with an override file that supplies a build command
OverrideCommandAtStart ==
    /\ OverrideCommand
    /\ ~Reported(Say("config-created"))

\* C27: whenever the override supplies a non-empty buildCommand the 'no build
\* command' condition is false: build and deploy execute that command and
\* never report that there is no build command.
C27_OverrideCommandIsABuildCommand ==
    (/\ entry \in {"build", "deployPrompt", "deployStrict"}
     /\ OverrideCommandAtStart) =>
        /\ ~Reported(Say("no-build-command"))
        /\ pc # "idle" => buildCommand = cfg.buildCommand

(***************************************************************************)
(* Properties of the archive strategies (SpecArchive), continued           *)
(***************************************************************************)
\* paths below the root that a strategy selects
Selected(list) == Values(list) \ {"./"}

\* C28: for the same include / exclude patterns and the same project tree the
\* zip strategy and the tar strategies (tar.gz, tar) select the same set of
\* paths, and the archive a strategy has written holds exactly that set.
C28_StrategiesSelectSamePaths ==
    (arcPromise = "resolved" /\ arcArgs.format \in LegalFormats) =>
        /\ Selected(zipEntries(files, arcArgs)) = Selected(tarEntries(files, arcArgs))
        /\ entries \ {"./"} = Selected(zipEntries(files, arcArgs))

\* C29: for every outputFile name handed to createCompressedArchive with
\* format tar.gz the intermediate tar path differs from the artifact path,
\* and when the promise resolves the returned path names a file on disk.
C29_TarGzArtifactExists ==
    (arcArgs.format = COMPRESSION_FORMATS.TAR_GZ) =>
        /\ tarFileOf(arcArgs.outputFile) # arcArgs.outputFile
        /\ arcPromise = "resolved" => arcResult \in files

(***************************************************************************)
(* Properties of build:init (SpecDetect)                                   *)
(***************************************************************************)
\* C30: for every project type the override file that
\* createDefaultCustomBuildConfig has written passes validateCustomBuildConfig
\* when it is read back, so that the build which follows build:init reaches
\* the build step, also on a project that has not been built yet.
C30_DefaultConfigValidates ==
    Reported(Say("config-created")) =>
        /\ validateCustomBuildConfig(files, cfg).success
        /\ (entry = "build" /\ pc # "idle") => pc = "awaitBuild"
====
